---- MODULE Spec2Model ----
(***************************************************************************)
(* Crystal Core: the permission resolver (lib/rbac/permissions.ts and      *)
(* lib/rbac/roles.ts), the sheets data adapter (lib/data/sheets.ts) and    *)
(* the sheets client with its circuit breaker and retry loop               *)
(* (lib/sheets/client.ts).                                                 *)
(*                                                                         *)
(* Four specifications share the module:                                   *)
(*   Spec        - one caller working through the resolver, the role       *)
(*                 manager, the permission cache and the adapter over the  *)
(*                 remote sheets; every await of a handler is two steps,   *)
(*                 the store serving the request (Serve) and the handler's *)
(*                 continuation (Resume).                                  *)
(*   SpecRace    - a resolution of one user's permissions racing with the  *)
(*                 mutations of that user's role assignments.              *)
(*   SpecBreaker - concurrent gateway calls through CircuitBreaker.execute *)
(*                 and retryWithBackoff.                                   *)
(*   SpecQuery   - the matching rule of hasPermission over resolved        *)
(*                 permission lists.                                       *)
(***************************************************************************)
EXTENDS Integers, Sequences, FiniteSets, TLC

VARIABLES
    now,              \* Date.now(), in milliseconds
    rolesSheet,       \* the ROLES sheet, header row first
    assignSheet,      \* the ROLE_ASSIGNMENTS sheet, header row first
    permissionCache,  \* permissions.ts: the module-level Map userId -> CacheEntry
    frames,           \* one async call chain per caller
    storeDown,        \* TRUE while the storage layer raises on every call
    mutDone,          \* history: a mutation for the user returned since the user's last resolution started
    cbState,          \* CircuitBreaker.state
    cbFailures,       \* CircuitBreaker.failures
    cbNextAttempt,    \* CircuitBreaker.nextAttempt (<<>> is null)
    calls,            \* the gateway calls, one per concurrent caller
    ticks,            \* how often the clock was seen to advance
    cbHist,           \* history: failed calls since the last successful one, last failed probe
    qPerms,           \* a resolved permission list handed to a point query
    qQuery,           \* the query: <<moduleCode, action, resource>>
    qResult,          \* <<>> before the query is evaluated, then <<answer>>
    usersSheet,       \* the USERS sheet, header row first
    txSheet,          \* the TRANSACTION_LOG sheet, header row first
    sysSheet,         \* the SYSTEM_LOG sheet, header row first
    jobs              \* one async call chain per caller: sign-in requests and log writes

vars == <<now, rolesSheet, assignSheet, permissionCache, frames, storeDown, mutDone,
          cbState, cbFailures, cbNextAttempt, calls, ticks, cbHist,
          qPerms, qQuery, qResult, usersSheet, txSheet, sysSheet, jobs>>

rbacVars == <<rolesSheet, assignSheet, permissionCache, frames, storeDown, mutDone>>
breakerVars == <<cbState, cbFailures, cbNextAttempt, calls, ticks, cbHist>>
queryVars == <<qPerms, qQuery, qResult>>
adapterVars == <<usersSheet, txSheet, sysSheet, jobs>>

----------------------------------------------------------------------------
(* Bounds of the model *)

MaxRows == 2          \* data rows a sheet may grow to
MaxNow == 300001      \* the clock stops advancing here
MaxTicks == 3         \* clock advances followed in the breaker's runs
MaxFailures == 6      \* the failure counter is followed up to this value
MaxPerms == 2         \* length of the permission lists handed to the point queries
MaxStamp == 2         \* the clock of the user writes runs from 0 to this instant

(* Program constants *)

CACHE_TTL == 300000
threshold == 5
timeout == 60000
maxRetries == 3

Users == {"u1", "u2"}     \* the users with rows in the sheets
Subjects == {"u1"}         \* the users whose access is resolved
Callers == {"p1", "p2"}
Readers == {"p1"}          \* issues the point queries
Writers == {"p2"}          \* issues the role mutations

UNDEF == "<undefined>"     \* JavaScript's undefined, for string-valued fields
NoEntry == <<>>            \* Map.get() of an absent key

----------------------------------------------------------------------------
(* utils.ts *)

\* String.prototype.toUpperCase on the cell tokens that occur
toUpperCase(s) ==
    CASE s = "true" -> "TRUE"
      [] s = "True" -> "TRUE"
      [] s = "false" -> "FALSE"
      [] OTHER -> s

\* cells are strings: the typeof-string branch
parseBoolean(value) == toUpperCase(value) = "TRUE"

\* the cell texts JSON.parse accepts
JsonTexts == {"{\"own\":true}"}

safeJsonParse(value, fallback) ==
    IF value = "" \/ value = UNDEF THEN fallback
    ELSE IF value \in JsonTexts THEN value ELSE fallback

\* new Date().toISOString(): a timestamp cell is <<t>>, an empty cell is <<>>
nowIso(t) == <<t>>

\* parseInt on the sort_order cells that occur
parseIntCell(s) ==
    CASE s = "1" -> 1
      [] s = "2" -> 2
      [] s = "3" -> 3
      [] OTHER -> 0

\* generateId(): randomUUID() never repeats; the first identifier not in `used`
IdTable == <<"a1", "a2", "a3", "a4", "a5", "a6", "a7", "a8">>
generateId(used) ==
    IdTable[CHOOSE k \in 1..Len(IdTable) :
                /\ IdTable[k] \notin used
                /\ \A j \in 1..(k - 1) : IdTable[j] \in used]

\* x || undefined  and  x || ''  on string cells
orUndefined(c) == IF c = "" THEN UNDEF ELSE c
orEmpty(v) == IF v = UNDEF THEN "" ELSE v

----------------------------------------------------------------------------
(* The sheets.  Row 1 is the header row. *)

RolesHeader == <<"role_id", "role_code", "role_name", "description", "is_active",
                 "created_at", "updated_at">>
AssignHeader == <<"assignment_id", "user_id", "role_id", "site_code", "assigned_by",
                  "assigned_at", "expires_at", "is_active">>
PermsHeader == <<"permission_id", "role_id", "module_code", "action", "resource",
                 "conditions", "is_active", "created_at", "updated_at">>
ModulesHeader == <<"module_id", "module_code", "module_name", "description", "icon",
                   "route", "is_active", "sort_order", "created_at", "updated_at">>

RoleRow(id, code, active) == <<id, code, code, "", active, <<0>>, <<0>>>>

\* the ROLES sheets the program may find: every seeded role in use, and
\* ADMIN switched off
SeededRoles ==
    <<RolesHeader, RoleRow("r1", "SUPER_ADMIN", "TRUE"), RoleRow("r2", "ADMIN", "true")>>

RolesSheets ==
    { SeededRoles,
      <<RolesHeader, RoleRow("r1", "SUPER_ADMIN", "TRUE"), RoleRow("r2", "ADMIN", "FALSE")>> }

PermRow(id, role, m, a, r, cond, active) == <<id, role, m, a, r, cond, active, <<0>>, <<0>>>>

permsSheet ==
    << PermsHeader,
       PermRow("g1", "r1", "*", "*", "*", "", "TRUE"),
       PermRow("g2", "r2", "HR", "create", "*", "{\"own\":true}", "TRUE"),
       PermRow("g3", "r2", "WMS", "read", "item", "{bad", "true"),
       PermRow("g4", "r2", "FIN", "read", "*", "", "FALSE") >>

ModuleRow(id, code, active, order) == <<id, code, code, "", "", "", active, order, <<0>>, <<0>>>>

modulesSheet ==
    << ModulesHeader,
       ModuleRow("m1", "HR", "TRUE", "2"),
       ModuleRow("m2", "WMS", "TRUE", "1"),
       ModuleRow("m3", "FIN", "FALSE", "3") >>

\* (a variant that maps the header row too)
sliceNone(rows) == rows

\* rows.slice(1)
slice1(rows) == IF Len(rows) = 0 THEN <<>> ELSE Tail(rows)

\* Array.prototype.map
RECURSIVE MapSeq(_, _)
MapSeq(F(_), s) == IF s = <<>> THEN <<>> ELSE <<F(Head(s))>> \o MapSeq(F, Tail(s))

----------------------------------------------------------------------------
(* lib/data/sheets.ts: row mappers *)

mapRowToRole(row) ==
    [role_id |-> row[1], role_code |-> row[2], role_name |-> row[3],
     description |-> row[4], is_active |-> parseBoolean(row[5]),
     created_at |-> row[6], updated_at |-> row[7]]

mapRowToRoleAssignment(row) ==
    [assignment_id |-> row[1], user_id |-> row[2], role_id |-> row[3],
     site_code |-> orUndefined(row[4]), assigned_by |-> row[5],
     assigned_at |-> row[6], expires_at |-> row[7],
     is_active |-> parseBoolean(row[8])]

mapRowToModule(row) ==
    [module_id |-> row[1], module_code |-> row[2], module_name |-> row[3],
     is_active |-> parseBoolean(row[7]), sort_order |-> parseIntCell(row[8])]

mapRowToPermission(row) ==
    [permission_id |-> row[1], role_id |-> row[2], module_code |-> row[3],
     action |-> row[4], resource |-> row[5], conditions |-> orUndefined(row[6]),
     is_active |-> parseBoolean(row[7])]

\* the row array assignRole and revokeRole write for an assignment object
assignmentToRow(a, activeCell) ==
    <<a.assignment_id, a.user_id, a.role_id, orEmpty(a.site_code), a.assigned_by,
      a.assigned_at, a.expires_at, activeCell>>

----------------------------------------------------------------------------
(* lib/data/sheets.ts: what each adapter read computes from the rows read *)

\* getRoles
getRoles(rows) == MapSeq(mapRowToRole, slice1(rows))

\* getRoleById: roles.find(r => r.role_id === roleId) || null, <<>> for null
getRoleById(rows, roleId) ==
    LET roles == getRoles(rows)
        hits == SelectSeq(roles, LAMBDA r: r.role_id = roleId)
    IN IF hits = <<>> THEN <<>> ELSE <<Head(hits)>>

\* (a variant that forgets the is_active filter)
getRoleAssignmentsAnyState(rows, userId) ==
    SelectSeq(MapSeq(mapRowToRoleAssignment, slice1(rows)), LAMBDA a: a.user_id = userId)

\* (a variant that passes over the assignments scoped to a site)
getRoleAssignmentsUnscoped(rows, userId) ==
    SelectSeq(MapSeq(mapRowToRoleAssignment, slice1(rows)),
              LAMBDA a: a.user_id = userId /\ a.is_active /\ a.site_code = UNDEF)

\* getRoleAssignments
getRoleAssignments(rows, userId) ==
    SelectSeq(MapSeq(mapRowToRoleAssignment, slice1(rows)),
              LAMBDA a: a.user_id = userId /\ a.is_active)

\* getPermissions
getPermissions(rows, roleId) ==
    SelectSeq(MapSeq(mapRowToPermission, slice1(rows)),
              LAMBDA p: p.role_id = roleId /\ p.is_active)

\* Array.prototype.sort by sort_order (stable insertion)
RECURSIVE InsertModule(_, _)
InsertModule(m, s) ==
    IF s = <<>> THEN <<m>>
    ELSE IF m.sort_order < Head(s).sort_order THEN <<m>> \o s
    ELSE <<Head(s)>> \o InsertModule(m, Tail(s))

RECURSIVE SortModules(_)
SortModules(s) ==
    IF s = <<>> THEN <<>>
    ELSE InsertModule(s[Len(s)], SortModules(SubSeq(s, 1, Len(s) - 1)))

\* (a variant that forgets the is_active filter)
getModulesAnyState(rows) == SortModules(MapSeq(mapRowToModule, slice1(rows)))

\* getActiveModules
getActiveModules(rows) ==
    SortModules(SelectSeq(MapSeq(mapRowToModule, slice1(rows)), LAMBDA m: m.is_active))

\* findIndex, 0-based as in the code; -1 when nothing matches
RECURSIVE findIndexFrom(_, _, _)
findIndexFrom(s, id, k) ==
    IF k > Len(s) THEN -1
    ELSE IF s[k].assignment_id = id THEN k - 1
    ELSE findIndexFrom(s, id, k + 1)

findIndex(s, id) == findIndexFrom(s, id, 1)

----------------------------------------------------------------------------
(* lib/rbac/permissions.ts: the permission cache *)

\* (a variant that takes the entry for stale at the instant of its expiry)
getCachedPermissionsEarly(cache, userId, t) ==
    IF cache[userId] = NoEntry THEN <<>>
    ELSE IF t >= cache[userId][1].expiresAt THEN <<>>
    ELSE <<cache[userId][1].permissions>>

\* getCachedPermissions: the value returned, <<>> for null, <<perms>> for a hit
getCachedPermissions(cache, userId, t) ==
    IF cache[userId] = NoEntry THEN <<>>
    ELSE IF t > cache[userId][1].expiresAt THEN <<>>
    ELSE <<cache[userId][1].permissions>>

\* getCachedPermissions: the map it leaves behind (a stale entry is deleted)
cacheAfterGet(cache, userId, t) ==
    IF cache[userId] # NoEntry /\ t > cache[userId][1].expiresAt
    THEN [cache EXCEPT ![userId] = NoEntry]
    ELSE cache

\* (a variant that stores nothing)
setCachedPermissionsNowhere(cache, userId, permissions, t) == cache

setCachedPermissions(cache, userId, permissions, t) ==
    [cache EXCEPT ![userId] = <<[permissions |-> permissions, expiresAt |-> t + CACHE_TTL]>>]

\* invalidatePermissionCache: if (userId) delete(userId) else clear()
invalidatePermissionCache(cache, userId) ==
    IF userId # UNDEF /\ userId # ""
    THEN [u \in DOMAIN cache |-> IF u = userId THEN NoEntry ELSE cache[u]]
    ELSE [u \in DOMAIN cache |-> NoEntry]

----------------------------------------------------------------------------
(* lib/rbac/permissions.ts: the pure parts of the point queries *)

\* (a variant with a combined shortcut: a wildcard module grants everything)
permMatchesShortcut(perm, moduleCode, action, resource) ==
    IF perm.module_code = "*" THEN TRUE
    ELSE IF perm.module_code # moduleCode THEN FALSE
    ELSE IF perm.action # "*" /\ perm.action # action THEN FALSE
    ELSE IF (resource # UNDEF /\ resource # "")
            /\ perm.resource # "*" /\ perm.resource # resource THEN FALSE
    ELSE TRUE

\* the predicate of permissions.some(...) in hasPermission
permMatches(perm, moduleCode, action, resource) ==
    IF perm.module_code # "*" /\ perm.module_code # moduleCode THEN FALSE
    ELSE IF perm.action # "*" /\ perm.action # action THEN FALSE
    ELSE IF (resource # UNDEF /\ resource # "")
            /\ perm.resource # "*" /\ perm.resource # resource THEN FALSE
    ELSE TRUE

somePermMatches(perms, moduleCode, action, resource) ==
    \E k \in 1..Len(perms) : permMatches(perms[k], moduleCode, action, resource)

\* the predicate of permissions.some(...) in canAccessModule
\* (a variant without the wildcard)
someModuleMatchesExactly(perms, moduleCode) ==
    \E k \in 1..Len(perms) : perms[k].module_code = moduleCode

someModuleMatches(perms, moduleCode) ==
    \E k \in 1..Len(perms) :
        perms[k].module_code = "*" \/ perms[k].module_code = moduleCode

\* roles.some(r => r.role_code === roleCode)
someRoleHasCode(roles, roleCode) ==
    \E k \in 1..Len(roles) : roles[k].role_code = roleCode

\* (a variant that keeps every occurrence)
arrayFromSetKeepingAll(s, seen) == s

\* Array.from(new Set(...)): first occurrences, in order
RECURSIVE arrayFromSet(_, _)
arrayFromSet(s, seen) ==
    IF s = <<>> THEN <<>>
    ELSE IF Head(s) \in seen THEN arrayFromSet(Tail(s), seen)
    ELSE <<Head(s)>> \o arrayFromSet(Tail(s), seen \cup {Head(s)})

moduleCodeOf(x) == x.module_code

\* the UserRole pushed for an assignment whose role was found active
toUserRole(role, assignment) ==
    [role_id |-> role.role_id, role_code |-> role.role_code,
     role_name |-> role.role_name, site_code |-> assignment.site_code]

\* the UserPermission pushed for a permission row
toUserPermission(perm) ==
    [module_code |-> perm.module_code, action |-> perm.action,
     resource |-> perm.resource, conditions |-> safeJsonParse(perm.conditions, "{}")]

----------------------------------------------------------------------------
(* The call frames.  A frame is one top-level call with the calls nested   *)
(* in it: op names the exported function called, pc the await it is        *)
(* suspended at, resp the response of the outstanding sheets request.      *)

ReadOps == {"getUserRoles", "getUserPermissions", "hasPermission", "canAccessModule",
            "getUserModules", "hasRole", "isAdmin"}
PermOps == {"getUserPermissions", "hasPermission", "canAccessModule", "getUserModules"}
WriteOps == {"assignRole", "revokeRole"}

NoArgs == [moduleCode |-> UNDEF, action |-> UNDEF, resource |-> UNDEF, roleCode |-> UNDEF,
           roleId |-> UNDEF, siteCode |-> UNDEF, expiresAt |-> <<>>, assignmentId |-> UNDEF]

IdleFrame ==
    [op |-> "idle", user |-> UNDEF, args |-> NoArgs, status |-> "idle",
     pc |-> "none", resp |-> <<"none">>, result |-> <<>>,
     assignments |-> <<>>, i |-> 0, roles |-> <<>>, j |-> 0, perms |-> <<>>,
     phase |-> 0, row |-> <<>>, rowNumber |-> 0,
     failed |-> FALSE, subFailed |-> FALSE, dirty |-> FALSE, afterMut |-> FALSE,
     downAll |-> FALSE, cacheHit |-> FALSE, at |-> 0]

Pending == <<"pending">>

\* the frame suspended at a new sheets request
Await(f, pc) == [f EXCEPT !.pc = pc, !.resp = Pending]

\* the promise of the top-level call resolves / rejects, at the instant `at`
\* (the locals of a finished call are garbage: they are dropped, except the
\* lists the result was computed from)
Finished(f) ==
    [f EXCEPT !.pc = "none", !.resp = <<"none">>, !.assignments = <<>>, !.i = 0, !.j = 0,
              !.phase = 0, !.rowNumber = 0, !.roles = <<>>,
              !.perms = IF f.op = "getUserPermissions" THEN <<>> ELSE f.perms]

Return(f, value) == [Finished(f) EXCEPT !.status = "returned", !.result = value, !.at = now]

Raise(f, error) == [Finished(f) EXCEPT !.status = "raised", !.result = error, !.at = now]

St(f, c) == [f |-> f, c |-> c]

\* getUserModules, from the permission list on
getUserModulesFrom(f, c, perms) ==
    IF \E k \in 1..Len(perms) : perms[k].module_code = "*"
    THEN St(Await([f EXCEPT !.perms = perms], "modules"), c)
    ELSE St(Return([f EXCEPT !.perms = perms],
                   arrayFromSet(MapSeq(moduleCodeOf, perms), {})), c)

\* the caller of getUserPermissions, once it has the list
afterPermissions(f, c, perms) ==
    CASE f.op = "getUserPermissions" -> St(Return([f EXCEPT !.perms = perms], perms), c)
      [] f.op = "hasPermission" ->
            St(Return([f EXCEPT !.perms = perms],
                      somePermMatches(perms, f.args.moduleCode, f.args.action,
                                      f.args.resource)), c)
      [] f.op = "canAccessModule" ->
            St(Return([f EXCEPT !.perms = perms],
                      someModuleMatches(perms, f.args.moduleCode)), c)
      [] f.op = "getUserModules" -> getUserModulesFrom(f, c, perms)

\* (a variant whose catch block rethrows)
getUserPermissionsRethrow(f, c) == St(Raise(f, "error"), c)

\* getUserPermissions: catch (error) { return [] }
getUserPermissionsCatch(f, c) == afterPermissions(f, c, <<>>)

\* getUserPermissions, from the role list on: the per-role loop, then the
\* cache write
getUserPermissionsLoop(f, c, t) ==
    IF f.j < Len(f.roles)
    THEN St(Await([f EXCEPT !.j = f.j + 1], "perms"), c)
    ELSE afterPermissions(f, setCachedPermissions(c, f.user, f.perms, t), f.perms)

\* the second operand of isAdmin's ||
isAdminSecond(f, c) ==
    St(Await([f EXCEPT !.phase = 2, !.assignments = <<>>, !.i = 0, !.roles = <<>>,
                       !.subFailed = FALSE], "assignments"), c)

\* the caller of getUserRoles, once it has the list
afterRoles(f, c, roles, t) ==
    CASE f.op = "getUserRoles" -> St(Return([f EXCEPT !.roles = roles], roles), c)
      [] f.op = "hasRole" ->
            St(Return([f EXCEPT !.roles = roles], someRoleHasCode(roles, f.args.roleCode)), c)
      [] f.op = "isAdmin" ->
            IF f.phase = 1
            THEN IF someRoleHasCode(roles, "SUPER_ADMIN")
                 THEN St(Return([f EXCEPT !.roles = roles], TRUE), c)
                 ELSE isAdminSecond(f, c)
            ELSE St(Return([f EXCEPT !.roles = roles], someRoleHasCode(roles, "ADMIN")), c)
      [] f.op \in PermOps ->
            getUserPermissionsLoop([f EXCEPT !.roles = roles, !.j = 0, !.perms = <<>>], c, t)

\* (a variant whose catch block rethrows)
getUserRolesRethrow(f, c, t) == St(Raise(f, "error"), c)

\* getUserRoles: catch (error) { return [] }
getUserRolesCatch(f, c, t) == afterRoles(f, c, <<>>, t)

\* getUserRoles: the loop over the assignments
getUserRolesLoop(f, c, t) ==
    IF f.i < Len(f.assignments)
    THEN St(Await([f EXCEPT !.i = f.i + 1], "role"), c)
    ELSE afterRoles(f, c, f.roles, t)

\* getUserModules: catch (error) { return [] }
getUserModulesCatch(f, c) == St(Return(f, <<>>), c)

\* (a variant that drops the user's cache entry before it throws)
revokeRoleAfterReadInvalidating(f, c, assignments) ==
    LET index == findIndex(assignments, f.args.assignmentId)
    IN IF index = -1
       THEN St(Raise(f, "Assignment not found"), invalidatePermissionCache(c, f.user))
       ELSE St(Await([f EXCEPT !.row = assignmentToRow(assignments[index + 1], "FALSE"),
                               !.rowNumber = index + 2], "rv_write"), c)

\* (a variant that writes a row of the id and the flag alone)
revokeRoleAfterReadBlanking(f, c, assignments) ==
    LET index == findIndex(assignments, f.args.assignmentId)
    IN IF index = -1
       THEN St(Raise(f, "Assignment not found"), c)
       ELSE St(Await([f EXCEPT !.row = <<f.args.assignmentId, "", "", "", "", <<>>, <<>>,
                                         "FALSE">>,
                               !.rowNumber = index + 2], "rv_write"), c)

\* revokeRole of the adapter, after its read
revokeRoleAfterRead(f, c, assignments) ==
    LET index == findIndex(assignments, f.args.assignmentId)
    IN IF index = -1
       THEN St(Raise(f, "Assignment not found"), c)
       ELSE St(Await([f EXCEPT !.row = assignmentToRow(assignments[index + 1], "FALSE"),
                               !.rowNumber = index + 2], "rv_write"), c)

\* (a variant that swallows the error of the append)
assignRoleAfterAppendSwallowing(f, c, ok) ==
    St(Return(f, <<>>), invalidatePermissionCache(c, f.user))

\* roles.ts assignRole, after the adapter's append: the await rethrows, or
\* the cache entry of the user is dropped
assignRoleAfterAppend(f, c, ok) ==
    IF ok THEN St(Return(f, <<>>), invalidatePermissionCache(c, f.user))
    ELSE St(Raise(f, f.resp[2]), c)

\* the continuation of a frame whose request was answered
Continue(f0, c, t) ==
    LET ok == f0.resp[1] = "ok"
        f == IF ok THEN f0
             ELSE [f0 EXCEPT !.failed = TRUE, !.subFailed = TRUE]
    IN CASE f.pc = "assignments" ->
                IF ok THEN getUserRolesLoop([f EXCEPT !.assignments = f.resp[2], !.i = 0,
                                                      !.roles = <<>>], c, t)
                ELSE getUserRolesCatch(f, c, t)
         [] f.pc = "role" ->
                IF ok
                THEN LET role == f.resp[2]
                         a == f.assignments[f.i]
                         roles == IF role # <<>> /\ role[1].is_active
                                  THEN Append(f.roles, toUserRole(role[1], a))
                                  ELSE f.roles
                     IN getUserRolesLoop([f EXCEPT !.roles = roles], c, t)
                ELSE getUserRolesCatch(f, c, t)
         [] f.pc = "perms" ->
                IF ok
                THEN getUserPermissionsLoop(
                         [f EXCEPT !.perms = f.perms \o MapSeq(toUserPermission, f.resp[2])],
                         c, t)
                ELSE getUserPermissionsCatch(f, c)
         [] f.pc = "modules" ->
                IF ok THEN St(Return(f, MapSeq(moduleCodeOf, f.resp[2])), c)
                ELSE getUserModulesCatch(f, c)
         [] f.pc = "append" -> assignRoleAfterAppend(f, c, ok)
         [] f.pc = "rv_read" ->
                IF ok THEN revokeRoleAfterRead(f, c, f.resp[2])
                ELSE St(Raise(f, f.resp[2]), c)
         [] f.pc = "rv_write" ->
                IF ok THEN St(Return(f, <<>>), invalidatePermissionCache(c, f.user))
                ELSE St(Raise(f, f.resp[2]), c)

----------------------------------------------------------------------------
(* The inputs the callers draw from *)

AssignedBy == {"admin"}
FarFuture == MaxNow + CACHE_TTL
PastInstant == 0 - 1

\* assignRole's (roleId, siteCode, expiresAt): r9 names no ROLES row
AssignInputs ==
    { <<"r1", UNDEF, <<>>>>,
      <<"r2", "HQ", <<PastInstant>>>>,
      <<"r2", "HQ", <<FarFuture>>>>,
      <<"r9", UNDEF, <<>>>> }

\* the rows another user is given
OtherInputs == { <<"r1", UNDEF, <<>>>> }

InputsOf(u) == IF u \in Subjects THEN AssignInputs ELSE OtherInputs

\* hasPermission's (moduleCode, action, resource)
PermissionQueries ==
    { <<"HR", "create", "candidate">>,
      <<"WMS", "create", UNDEF>>,
      <<"WMS", "read", "">> }

ModuleCodes == {"HR", "FIN"}
RoleCodes == {"ADMIN", "VIEWER"}
ErrKinds == {"transient", "fatal", "circuit_open"}

\* the assignment ids in the sheet or about to be appended
usedIds ==
    { assignSheet[k][1] : k \in 2..Len(assignSheet) }
        \cup { frames[p].row[1] : p \in { q \in Callers : frames[q].pc = "append" } }

pendingAppends == Cardinality({ p \in Callers : frames[p].pc = "append" })

----------------------------------------------------------------------------
(* lib/data/sheets.ts: the USERS, TRANSACTION_LOG and SYSTEM_LOG sheets *)

UsersHeader == <<"user_id", "email", "name", "auth_provider", "is_active", "created_at",
                 "updated_at", "last_login_at", "metadata">>
TxHeader == <<"tx_id", "user_id", "module_code", "action", "entity_type", "entity_id",
              "status", "payload", "error_message", "started_at", "completed_at",
              "duration_ms">>
SysHeader == <<"log_id", "timestamp", "level", "user_id", "module_code", "action",
               "message", "details", "correlation_id", "ip_address", "user_agent">>

\* { ...obj, ...updates }
spread(obj, updates) ==
    [k \in DOMAIN obj \cup DOMAIN updates |->
        IF k \in DOMAIN updates THEN updates[k] ELSE obj[k]]

mapRowToUser(row) ==
    [user_id |-> row[1], email |-> row[2], name |-> row[3], auth_provider |-> row[4],
     is_active |-> parseBoolean(row[5]), created_at |-> row[6], updated_at |-> row[7],
     last_login_at |-> row[8], metadata |-> orUndefined(row[9])]

\* duration_ms: row[11] ? parseInt(row[11]) : undefined, on the cells that occur;
\* the number n is <<n>>, undefined is <<>>
parseDuration(cell) == IF cell = "" THEN <<>> ELSE <<parseIntCell(cell)>>

\* duration_ms?.toString() || ''
durationCell(d) ==
    IF d = <<>> THEN ""
    ELSE CASE d[1] = 0 -> "0"
           [] d[1] = 1 -> "1"
           [] d[1] = 2 -> "2"
           [] OTHER -> "3"

mapRowToTransactionLog(row) ==
    [tx_id |-> row[1], user_id |-> row[2], module_code |-> row[3], action |-> row[4],
     entity_type |-> row[5], entity_id |-> orUndefined(row[6]), status |-> row[7],
     payload |-> orUndefined(row[8]), error_message |-> orUndefined(row[9]),
     started_at |-> row[10], completed_at |-> row[11],
     duration_ms |-> parseDuration(row[12])]

\* the row array createUser and updateUser write for a user object
userToRow(u) ==
    <<u.user_id, u.email, u.name, u.auth_provider,
      IF u.is_active THEN "TRUE" ELSE "FALSE",
      u.created_at, u.updated_at, u.last_login_at, orEmpty(u.metadata)>>

\* the row array createTransactionLog and updateTransactionLog write
logToRow(l) ==
    <<l.tx_id, l.user_id, l.module_code, l.action, l.entity_type, orEmpty(l.entity_id),
      l.status, orEmpty(l.payload), orEmpty(l.error_message), l.started_at,
      l.completed_at, durationCell(l.duration_ms)>>

\* the row array createSystemLog writes
systemLogToRow(l) ==
    <<l.log_id, l.timestamp, l.level, orEmpty(l.user_id), orEmpty(l.module_code),
      orEmpty(l.action), l.message, orEmpty(l.details), orEmpty(l.correlation_id),
      orEmpty(l.ip_address), orEmpty(l.user_agent)>>

\* getUsers
getUsers(rows) == MapSeq(mapRowToUser, slice1(rows))

\* getUserById: users.find(...) || null, as <<>> or <<user>>
getUserById(users, userId) ==
    LET hits == SelectSeq(users, LAMBDA u: u.user_id = userId)
    IN IF hits = <<>> THEN <<>> ELSE <<Head(hits)>>

\* findIndex on the named identifier, 0-based; -1 when nothing matches
RECURSIVE findIndexByFrom(_, _, _, _)
findIndexByFrom(s, field, id, k) ==
    IF k > Len(s) THEN -1
    ELSE IF s[k][field] = id THEN k - 1
    ELSE findIndexByFrom(s, field, id, k + 1)

findIndexBy(s, field, id) == findIndexByFrom(s, field, id, 1)

\* (a variant that inserts the row right under the header)
appendRowsOnTop(sheet, row) == <<sheet[1], row>> \o Tail(sheet)

\* values.append with INSERT_ROWS: the row goes below the last row
appendRows(sheet, row) == Append(sheet, row)

\* values.update on the one-row range A<rowNumber>:..<rowNumber>
writeRow(sheet, rowNumber, row) ==
    [k \in 1..(IF rowNumber > Len(sheet) THEN rowNumber ELSE Len(sheet)) |->
        IF k = rowNumber THEN row
        ELSE IF k <= Len(sheet) THEN sheet[k] ELSE <<>>]

\* (seen is history: the number of data rows the scan of the call went over)
NoJob ==
    [op |-> "idle", status |-> "idle", pc |-> "none", resp |-> <<"none">>,
     id |-> UNDEF, updates |-> <<>>, row |-> <<>>, rowNumber |-> 0, result |-> <<>>,
     failed |-> FALSE, seen |-> 0]

AdapterIdle ==
    /\ usersSheet = <<UsersHeader>>
    /\ txSheet = <<TxHeader>>
    /\ sysSheet = <<SysHeader>>
    /\ jobs = [p \in Callers |-> NoJob]

----------------------------------------------------------------------------
(* Actions of Spec *)

RbacIdle ==
    /\ now = 0
    /\ assignSheet = <<AssignHeader>>
    /\ permissionCache = [u \in Users |-> NoEntry]
    /\ frames = [p \in Callers |-> IdleFrame]
    /\ storeDown = FALSE
    /\ mutDone = [u \in Users |-> FALSE]

RbacInit ==
    /\ rolesSheet \in RolesSheets
    /\ RbacIdle

----------------------------------------------------------------------------
(* lib/sheets/client.ts: the circuit breaker and the retry loop *)

GatewayCalls == {"c1", "c2"}

\* (a variant with every wait doubled)
delaysDoubled == <<400, 1000, 2000>>

delays == <<200, 500, 1000>>

\* what one attempt of the wrapped network operation ends with
NetErrors ==
    { [code |-> "ETIMEDOUT", status |-> 0],
      [code |-> "ECONNRESET", status |-> 0],
      [code |-> "", status |-> 503],
      [code |-> "", status |-> 429],
      [code |-> "", status |-> 404] }

\* the errors met where several calls run together: one passing, one
\* rate limit, one lasting
GatewayErrors ==
    { [code |-> "ETIMEDOUT", status |-> 0],
      [code |-> "", status |-> 429],
      [code |-> "", status |-> 404] }

\* (a variant that takes every HTTP error for a passing one)
isRetryableAnyStatus(error) ==
    \/ error.code = "ETIMEDOUT"
    \/ error.code = "ECONNRESET"
    \/ error.status >= 400

isRetryable(error) ==
    \/ error.code = "ETIMEDOUT"
    \/ error.code = "ECONNRESET"
    \/ error.status >= 500
    \/ error.status = 429

NoError == [code |-> "", status |-> 0]
CircuitOpenError == [code |-> "CIRCUIT_OPEN", status |-> 0]

\* startState, startedCooling and afterProbe are history: the breaker's
\* state when the call entered execute, whether a cool-down was then running,
\* and whether a probe had failed less than `timeout` before
IdleCall ==
    [pc |-> "idle", i |-> 0, wakeAt |-> 0, attempts |-> 0, error |-> NoError,
     startState |-> "none", startedCooling |-> FALSE, afterProbe |-> FALSE]

NoHist == [run |-> 0, probeFailedAt |-> <<>>]

\* the call has ended: what is kept of it is its outcome
Ended(call, pc, error) ==
    [IdleCall EXCEPT !.pc = pc, !.error = error, !.attempts = call.attempts]

QueryIdle ==
    /\ qPerms = <<>>
    /\ qQuery = <<UNDEF, UNDEF, UNDEF>>
    /\ qResult = <<>>

BreakerIdle ==
    /\ cbState = "CLOSED"
    /\ cbFailures = 0
    /\ cbNextAttempt = <<>>
    /\ calls = [c \in GatewayCalls |-> IdleCall]
    /\ ticks = 0
    /\ cbHist = NoHist

\* (a variant with the comparison turned round)
rejectsAfterCoolDown(state, nextAttempt, t) ==
    state = "OPEN" /\ nextAttempt # <<>> /\ nextAttempt[1] # 0 /\ t > nextAttempt[1]

\* CircuitBreaker.execute, the guard at its head: TRUE when the call is
\* thrown out with the circuit-open error
rejects(state, nextAttempt, t) ==
    state = "OPEN" /\ nextAttempt # <<>> /\ nextAttempt[1] # 0 /\ t < nextAttempt[1]

\* (a variant that leaves the count as it is)
onSuccessKeepsCount == [failures |-> cbFailures, state |-> "CLOSED", nextAttempt |-> cbNextAttempt]

\* CircuitBreaker.onSuccess
onSuccess == [failures |-> 0, state |-> "CLOSED", nextAttempt |-> cbNextAttempt]

\* (a variant that counts a failure twice)
onFailureTwice ==
    LET n == cbFailures + 2
    IN IF n >= threshold
       THEN [failures |-> n, state |-> "OPEN", nextAttempt |-> <<now + timeout>>]
       ELSE [failures |-> n, state |-> cbState, nextAttempt |-> cbNextAttempt]

\* CircuitBreaker.onFailure
onFailure ==
    LET n == cbFailures + 1
    IN IF n >= threshold
       THEN [failures |-> n, state |-> "OPEN", nextAttempt |-> <<now + timeout>>]
       ELSE [failures |-> n, state |-> cbState, nextAttempt |-> cbNextAttempt]

\* (a variant in which a rejection restarts the cool-down)
onRejectionRestartsCoolDown ==
    [failures |-> cbFailures, state |-> cbState, nextAttempt |-> <<now + timeout>>]

\* CircuitBreaker.execute throws the circuit-open error before its try block:
\* neither onSuccess nor onFailure runs
onRejection == [failures |-> cbFailures, state |-> cbState, nextAttempt |-> cbNextAttempt]

SetBreaker(b) ==
    /\ cbFailures' = b.failures
    /\ cbState' = b.state
    /\ cbNextAttempt' = b.nextAttempt

\* a caller enters CircuitBreaker.execute: thrown out at once, or let
\* through to retryWithBackoff, whose first attempt goes out
Execute(c) ==
    /\ calls[c].pc \in {"idle", "ok", "failed", "rejected"}
    /\ LET started ==
           [IdleCall EXCEPT !.startState = cbState,
                            !.startedCooling = (cbState = "OPEN" /\ cbNextAttempt # <<>>
                                                /\ now < cbNextAttempt[1]),
                            !.afterProbe = (cbHist.probeFailedAt # <<>>
                                            /\ now < cbHist.probeFailedAt[1] + timeout)]
       IN IF rejects(cbState, cbNextAttempt, now)
          THEN /\ calls' = [calls EXCEPT ![c] = [started EXCEPT !.pc = "rejected",
                                                                !.error = CircuitOpenError]]
               /\ SetBreaker(onRejection)
          ELSE /\ calls' = [calls EXCEPT ![c] = [started EXCEPT !.pc = "attempt",
                                                                !.attempts = 1]]
               /\ cbState' = IF cbState = "OPEN" THEN "HALF_OPEN" ELSE cbState
               /\ UNCHANGED <<cbFailures, cbNextAttempt>>
    /\ UNCHANGED <<now, ticks, cbHist, rbacVars, queryVars, adapterVars>>

\* the attempt in flight succeeds: retryWithBackoff returns, onSuccess runs
AttemptSucceeds(c) ==
    /\ calls[c].pc = "attempt"
    /\ calls' = [calls EXCEPT ![c] = Ended(calls[c], "ok", NoError)]
    /\ SetBreaker(onSuccess)
    /\ cbHist' = [cbHist EXCEPT !.run = 0]
    /\ UNCHANGED <<now, ticks, rbacVars, queryVars, adapterVars>>

\* (a variant that allows the loop one more turn)
rethrowsLate(error, i) == ~isRetryable(error) \/ i = maxRetries

\* the test of the catch in retryWithBackoff: !isRetryable || i === maxRetries - 1
rethrows(error, i) == ~isRetryable(error) \/ i = maxRetries - 1

\* the attempt in flight fails: the loop sleeps before the next attempt, or
\* rethrows, and then onFailure runs
AttemptFailsWith(c, errors) ==
    /\ calls[c].pc = "attempt"
    /\ cbFailures < MaxFailures
    /\ \E error \in errors :
          IF rethrows(error, calls[c].i)
          THEN /\ calls' = [calls EXCEPT ![c] = Ended(calls[c], "failed", error)]
               /\ SetBreaker(onFailure)
               /\ cbHist' = [run |-> cbHist.run + 1,
                             probeFailedAt |-> IF calls[c].startState = "OPEN"
                                               THEN <<now>> ELSE cbHist.probeFailedAt]
          ELSE /\ calls' = [calls EXCEPT ![c].pc = "sleeping", ![c].error = error,
                                         ![c].wakeAt = now + delays[calls[c].i + 1]]
               /\ UNCHANGED <<cbState, cbFailures, cbNextAttempt, cbHist>>
    /\ UNCHANGED <<now, ticks, rbacVars, queryVars, adapterVars>>

AttemptFails(c) == AttemptFailsWith(c, GatewayErrors)

\* the backoff timer fires: the next attempt goes out
BackoffEnds(c) ==
    /\ calls[c].pc = "sleeping"
    /\ now >= calls[c].wakeAt
    /\ calls' = [calls EXCEPT ![c].pc = "attempt", ![c].i = calls[c].i + 1,
                              ![c].wakeAt = 0, ![c].error = NoError,
                              ![c].attempts = calls[c].attempts + 1]
    /\ UNCHANGED <<now, ticks, cbState, cbFailures, cbNextAttempt, cbHist, rbacVars, queryVars, adapterVars>>

\* the instants something is due at: the backoff timers and the end of the
\* cool-down, and the millisecond before it
dueInstants ==
    { calls[c].wakeAt : c \in { d \in GatewayCalls : calls[d].pc = "sleeping" } }
        \cup (IF cbNextAttempt = <<>> THEN {}
              ELSE {cbNextAttempt[1] - 1, cbNextAttempt[1]})

\* time passes, up to one of the instants
ClockAdvances(instants) ==
    /\ \E t \in instants :
          /\ t > now
          /\ now' = t
    /\ ticks' = ticks + 1
    /\ cbHist' = IF cbHist.probeFailedAt # <<>> /\ now' >= cbHist.probeFailedAt[1] + timeout
                 THEN [cbHist EXCEPT !.probeFailedAt = <<>>]
                 ELSE cbHist
    /\ UNCHANGED <<cbState, cbFailures, cbNextAttempt, calls, rbacVars, queryVars, adapterVars>>

\* time passes, up to the next instant something is due at
BreakerTick ==
    /\ ticks < MaxTicks
    /\ ClockAdvances(dueInstants)

StartFrame(op, u, args) ==
    [IdleFrame EXCEPT !.op = op, !.user = u, !.args = args, !.status = "running",
                      !.phase = IF op = "isAdmin" THEN 1 ELSE 0,
                      !.afterMut = (op \in PermOps /\ mutDone[u]),
                      !.downAll = storeDown]

\* a caller invokes one of the exported read operations; the code runs to
\* its first await (getUserPermissions looks in the cache before that)
CallRead(p, op, u, args) ==
    /\ frames[p].status # "running"
    /\ LET f == StartFrame(op, u, args)
           cached == getCachedPermissions(permissionCache, u, now)
           c1 == cacheAfterGet(permissionCache, u, now)
           st == IF op \in PermOps
                 THEN IF cached # <<>> THEN afterPermissions(f, c1, cached[1])
                      ELSE St(Await(f, "assignments"), c1)
                 ELSE St(Await(f, "assignments"), permissionCache)
       IN /\ frames' = [frames EXCEPT ![p] = [st.f EXCEPT !.cacheHit =
                                                    (op \in PermOps /\ cached # <<>>)]]
          /\ permissionCache' = st.c
    /\ mutDone' = IF op \in PermOps THEN [mutDone EXCEPT ![u] = FALSE] ELSE mutDone
    /\ UNCHANGED <<now, rolesSheet, assignSheet, storeDown, breakerVars, queryVars, adapterVars>>

CallGetUserRoles(p) == \E u \in Subjects : CallRead(p, "getUserRoles", u, NoArgs)

CallGetUserPermissions(p) == \E u \in Subjects : CallRead(p, "getUserPermissions", u, NoArgs)

CallHasPermission(p) ==
    \E u \in Subjects, q \in PermissionQueries :
        CallRead(p, "hasPermission", u,
                 [NoArgs EXCEPT !.moduleCode = q[1], !.action = q[2], !.resource = q[3]])

CallCanAccessModule(p) ==
    \E u \in Subjects, m \in ModuleCodes :
        CallRead(p, "canAccessModule", u, [NoArgs EXCEPT !.moduleCode = m])

CallGetUserModules(p) == \E u \in Subjects : CallRead(p, "getUserModules", u, NoArgs)

CallHasRole(p) ==
    \E u \in Subjects, rc \in RoleCodes :
        CallRead(p, "hasRole", u, [NoArgs EXCEPT !.roleCode = rc])

CallIsAdmin(p) == \E u \in Subjects : CallRead(p, "isAdmin", u, NoArgs)

\* roles.ts assignRole up to its await: the adapter builds the row and
\* sends the append
AssignRole(p, u, in, by) ==
    /\ frames[p].status # "running"
    /\ (Len(assignSheet) - 1) + pendingAppends < MaxRows
    /\ LET args == [NoArgs EXCEPT !.roleId = in[1], !.siteCode = in[2],
                                  !.expiresAt = in[3]]
           newAssignment ==
               [assignment_id |-> generateId(usedIds), user_id |-> u,
                role_id |-> in[1], site_code |-> in[2], assigned_by |-> by,
                assigned_at |-> nowIso(now), expires_at |-> in[3], is_active |-> TRUE]
           row == assignmentToRow(newAssignment,
                                  IF newAssignment.is_active THEN "TRUE" ELSE "FALSE")
       IN frames' = [frames EXCEPT
                       ![p] = Await([StartFrame("assignRole", u, args) EXCEPT !.row = row],
                                    "append")]
    /\ UNCHANGED <<now, rolesSheet, assignSheet, permissionCache, storeDown, mutDone,
                   breakerVars, queryVars, adapterVars>>

CallAssignRole(p) ==
    \E u \in Users, by \in AssignedBy : \E in \in InputsOf(u) : AssignRole(p, u, in, by)

\* roles.ts revokeRole up to its first await: the adapter sends its read
RevokeRole(p, assignmentId, u) ==
    /\ frames[p].status # "running"
    /\ frames' = [frames EXCEPT
                    ![p] = Await(StartFrame("revokeRole", u,
                                            [NoArgs EXCEPT !.assignmentId = assignmentId]),
                                 "rv_read")]
    /\ UNCHANGED <<now, rolesSheet, assignSheet, permissionCache, storeDown, mutDone,
                   breakerVars, queryVars, adapterVars>>

CallRevokeRole(p) ==
    \E u \in Users, k \in 1..(MaxRows + 1) : RevokeRole(p, IdTable[k], u)

\* every other call's view of the store is no longer the store
markDirty(fs, p) ==
    [q \in Callers |-> IF q # p /\ fs[q].status # "idle"
                       THEN [fs[q] EXCEPT !.dirty = TRUE] ELSE fs[q]]

\* the sheets client answers the outstanding request of p: with an error
\* while the storage layer is down, else with the rows as they are now
Serve(p) ==
    LET f == frames[p]
    IN /\ f.status = "running"
       /\ f.resp = Pending
       /\ IF storeDown
          THEN /\ \E kind \in ErrKinds :
                     frames' = [frames EXCEPT ![p].resp = <<"err", kind>>]
               /\ UNCHANGED assignSheet
          ELSE CASE f.pc = "assignments" ->
                      /\ frames' = [frames EXCEPT
                            ![p].resp = <<"ok", getRoleAssignments(assignSheet, f.user)>>]
                      /\ UNCHANGED assignSheet
                 [] f.pc = "role" ->
                      /\ frames' = [frames EXCEPT
                            ![p].resp = <<"ok", getRoleById(rolesSheet,
                                                           f.assignments[f.i].role_id)>>]
                      /\ UNCHANGED assignSheet
                 [] f.pc = "perms" ->
                      /\ frames' = [frames EXCEPT
                            ![p].resp = <<"ok", getPermissions(permsSheet,
                                                              f.roles[f.j].role_id)>>]
                      /\ UNCHANGED assignSheet
                 [] f.pc = "modules" ->
                      /\ frames' = [frames EXCEPT
                            ![p].resp = <<"ok", getActiveModules(modulesSheet)>>]
                      /\ UNCHANGED assignSheet
                 [] f.pc = "append" ->
                      /\ assignSheet' = appendRows(assignSheet, f.row)
                      /\ frames' = [markDirty(frames, p) EXCEPT ![p].resp = <<"ok", <<>>>>]
                 [] f.pc = "rv_read" ->
                      /\ frames' = [frames EXCEPT
                            ![p].resp = <<"ok", MapSeq(mapRowToRoleAssignment,
                                                      slice1(assignSheet))>>]
                      /\ UNCHANGED assignSheet
                 [] f.pc = "rv_write" ->
                      /\ assignSheet' = [assignSheet EXCEPT ![f.rowNumber] = f.row]
                      /\ frames' = [(IF assignSheet'= assignSheet THEN frames
                                     ELSE markDirty(frames, p))
                                    EXCEPT ![p].resp = <<"ok", <<>>>>]
       /\ UNCHANGED <<now, rolesSheet, permissionCache, storeDown, mutDone, breakerVars, queryVars, adapterVars>>

\* the continuation of p runs, to its next await or to its return
Resume(p) ==
    LET f == frames[p]
    IN /\ f.status = "running"
       /\ f.resp[1] \in {"ok", "err"}
       /\ LET st == Continue(f, permissionCache, now)
          IN /\ frames' = [frames EXCEPT ![p] = st.f]
             /\ permissionCache' = st.c
             /\ mutDone' =
                  IF st.f.status = "returned" /\ f.op \in WriteOps /\ f.row[2] = f.user
                  THEN [mutDone EXCEPT ![f.user] = TRUE]
                  ELSE mutDone
       /\ UNCHANGED <<now, rolesSheet, assignSheet, storeDown, breakerVars, queryVars, adapterVars>>

StoreGoesDown ==
    /\ ~storeDown
    /\ storeDown' = TRUE
    /\ UNCHANGED <<now, rolesSheet, assignSheet, permissionCache, frames, mutDone,
                   breakerVars, queryVars, adapterVars>>

StoreComesUp ==
    /\ storeDown
    /\ storeDown' = FALSE
    /\ frames' = [p \in Callers |-> [frames[p] EXCEPT !.downAll = FALSE]]
    /\ UNCHANGED <<now, rolesSheet, assignSheet, permissionCache, mutDone, breakerVars, queryVars, adapterVars>>

\* the instants that matter to the cache: the first millisecond, the expiry
\* of an entry and the millisecond after it
cacheInstants ==
    {1} \cup UNION { {permissionCache[u][1].expiresAt, permissionCache[u][1].expiresAt + 1} :
                        u \in { v \in Users : permissionCache[v] # NoEntry } }

\* time passes, up to one of these instants
Tick ==
    /\ \E t \in cacheInstants :
          /\ t > now
          /\ t <= MaxNow
          /\ now' = t
    /\ UNCHANGED <<rbacVars, breakerVars, queryVars, adapterVars>>

Init == RbacInit /\ BreakerIdle /\ QueryIdle /\ AdapterIdle

\* one caller issuing the exported operations one after another, against a
\* store that fails and recovers
Next ==
    \/ \E p \in Readers : CallGetUserRoles(p)
    \/ \E p \in Readers : CallGetUserPermissions(p)
    \/ \E p \in Readers : CallHasPermission(p)
    \/ \E p \in Readers : CallCanAccessModule(p)
    \/ \E p \in Readers : CallGetUserModules(p)
    \/ \E p \in Readers : CallHasRole(p)
    \/ \E p \in Readers : CallIsAdmin(p)
    \/ \E p \in Readers : CallAssignRole(p)
    \/ \E p \in Readers : CallRevokeRole(p)
    \/ \E p \in Readers : Serve(p)
    \/ \E p \in Readers : Resume(p)
    \/ StoreGoesDown
    \/ StoreComesUp

Spec == Init /\ [][Next]_vars

\* a resolution of one caller racing the role mutations of another, for
\* one user
RaceUser == "u1"

RaceGetUserPermissions(p) == CallRead(p, "getUserPermissions", RaceUser, NoArgs)

RaceAssignRole(p) ==
    \E in \in AssignInputs, by \in AssignedBy : AssignRole(p, RaceUser, in, by)

RaceRevokeRole(p) == \E k \in 1..(MaxRows + 1) : RevokeRole(p, IdTable[k], RaceUser)

NextRace ==
    \/ \E p \in Readers : RaceGetUserPermissions(p)
    \/ \E p \in Writers : RaceAssignRole(p)
    \/ \E p \in Writers : RaceRevokeRole(p)
    \/ \E p \in Callers : Serve(p)
    \/ \E p \in Callers : Resume(p)

RaceInit ==
    /\ rolesSheet = SeededRoles
    /\ RbacIdle
    /\ BreakerIdle
    /\ AdapterIdle
    /\ QueryIdle

SpecRace == RaceInit /\ [][NextRace]_vars

BreakerInit ==
    /\ rolesSheet = SeededRoles
    /\ RbacIdle
    /\ BreakerIdle
    /\ AdapterIdle
    /\ QueryIdle

NextBreaker ==
    \/ \E c \in GatewayCalls : Execute(c)
    \/ \E c \in GatewayCalls : AttemptSucceeds(c)
    \/ \E c \in GatewayCalls : AttemptFails(c)
    \/ \E c \in GatewayCalls : BackoffEnds(c)
    \/ BreakerTick

SpecBreaker == BreakerInit /\ [][NextBreaker]_vars

\* one caller resolving the permissions of one user again and again while
\* the clock runs through the life of a cache entry
\* (the user holds one role from the start, as left by an earlier assignRole)
GrantedRow(roleId) ==
    assignmentToRow([assignment_id |-> IdTable[1], user_id |-> RaceUser, role_id |-> roleId,
                     site_code |-> UNDEF, assigned_by |-> "admin", assigned_at |-> nowIso(0),
                     expires_at |-> <<>>, is_active |-> TRUE], "TRUE")

CacheInit ==
    /\ rolesSheet = SeededRoles
    /\ now = 0
    /\ assignSheet \in { <<AssignHeader, GrantedRow(r)>> : r \in {"r1", "r2"} }
    /\ permissionCache = [u \in Users |-> NoEntry]
    /\ frames = [p \in Callers |-> IdleFrame]
    /\ storeDown = FALSE
    /\ mutDone = [u \in Users |-> FALSE]
    /\ BreakerIdle
    /\ AdapterIdle
    /\ QueryIdle

NextCache ==
    \/ \E p \in Readers : RaceGetUserPermissions(p)
    \/ \E p \in Readers : RaceRevokeRole(p)
    \/ \E p \in Readers : Serve(p)
    \/ \E p \in Readers : Resume(p)
    \/ StoreGoesDown
    \/ StoreComesUp
    \/ Tick

SpecCache == CacheInit /\ [][NextCache]_vars

\* the cache on its own: every cache of the two users, every argument of
\* invalidatePermissionCache (UNDEF is the call without an argument)
CachedLists == {<<>>, MapSeq(toUserPermission, getPermissions(permsSheet, "r2"))}

CacheEntries ==
    {NoEntry} \cup { <<[permissions |-> ps, expiresAt |-> e]>> :
                        ps \in CachedLists, e \in {CACHE_TTL, CACHE_TTL + 1} }

InvalidateArgs == Users \cup {"", "u9", UNDEF}

InvalidateInit ==
    /\ rolesSheet = SeededRoles
    /\ now = 0
    /\ assignSheet = <<AssignHeader>>
    /\ permissionCache \in [Users -> CacheEntries]
    /\ frames = [p \in Callers |-> IdleFrame]
    /\ storeDown = FALSE
    /\ mutDone = [u \in Users |-> FALSE]
    /\ BreakerIdle
    /\ AdapterIdle
    /\ QueryIdle

\* invalidatePermissionCache called from outside the module: it runs to its
\* end without an await
Invalidate(p, userId) ==
    /\ frames[p].status # "running"
    /\ frames' = [frames EXCEPT
                    ![p] = Return(StartFrame("invalidatePermissionCache", userId, NoArgs),
                                  <<>>)]
    /\ permissionCache' = invalidatePermissionCache(permissionCache, userId)
    /\ UNCHANGED <<now, rolesSheet, assignSheet, storeDown, mutDone, breakerVars,
                   queryVars, adapterVars>>

CallInvalidate(p) == \E userId \in InvalidateArgs : Invalidate(p, userId)

NextInvalidate == \E p \in Callers : CallInvalidate(p)

SpecInvalidate == InvalidateInit /\ [][NextInvalidate]_vars

\* one gateway call after another, each attempt ending in any of NetErrors
RetryCall == "c1"

RetryAttemptFails == AttemptFailsWith(RetryCall, NetErrors)

NextRetry ==
    \/ Execute(RetryCall)
    \/ AttemptSucceeds(RetryCall)
    \/ RetryAttemptFails
    \/ BackoffEnds(RetryCall)
    \/ BreakerTick

SpecRetry == BreakerInit /\ [][NextRetry]_vars

\* one gateway call after another, each to its end: calls are begun while
\* the clock is within its bound, and the timer of the call in flight still
\* fires after it
ExecuteInTime(c) == ticks < MaxTicks /\ Execute(c)

TimerTick ==
    /\ ticks >= MaxTicks
    /\ ClockAdvances({ calls[c].wakeAt : c \in { d \in GatewayCalls : calls[d].pc = "sleeping" } })

NextGateway ==
    \/ ExecuteInTime(RetryCall)
    \/ AttemptSucceeds(RetryCall)
    \/ AttemptFails(RetryCall)
    \/ BackoffEnds(RetryCall)
    \/ BreakerTick
    \/ TimerTick

\* every attempt sent returns or fails, and every timer set fires
GatewayFairness ==
    /\ WF_vars(AttemptSucceeds(RetryCall) \/ AttemptFails(RetryCall))
    /\ WF_vars(BackoffEnds(RetryCall))
    /\ WF_vars(BreakerTick \/ TimerTick)

SpecGateway == BreakerInit /\ [][NextGateway]_vars /\ GatewayFairness

----------------------------------------------------------------------------
(* The point query of hasPermission on its own: every permission list up   *)
(* to MaxPerms entries over the field values below, every query.           *)

QModuleValues == {"*", "HR", "WMS"}
QActionValues == {"*", "create"}
QResourceValues == {"*", "candidate"}

QPermissions ==
    [module_code : QModuleValues, action : QActionValues, resource : QResourceValues,
     conditions : {"{}"}]

QQueries == {"HR", "WMS"} \X {"create", "read"} \X {UNDEF, "", "candidate", "item"}

RECURSIVE SeqsUpTo(_, _)
SeqsUpTo(S, n) ==
    IF n = 0 THEN {<<>>}
    ELSE LET shorter == SeqsUpTo(S, n - 1)
         IN shorter \cup { Append(q, x) : q \in shorter, x \in S }

QueryInit ==
    /\ rolesSheet = SeededRoles
    /\ RbacIdle
    /\ BreakerIdle
    /\ AdapterIdle
    /\ qPerms \in SeqsUpTo(QPermissions, MaxPerms)
    /\ qQuery \in QQueries
    /\ qResult = <<>>

\* hasPermission from the permission list on: permissions.some(...)
EvaluateHasPermission ==
    /\ qResult = <<>>
    /\ qResult' = <<somePermMatches(qPerms, qQuery[1], qQuery[2], qQuery[3])>>
    /\ UNCHANGED <<now, rbacVars, breakerVars, qPerms, qQuery, adapterVars>>

NextQuery == EvaluateHasPermission

SpecQuery == QueryInit /\ [][NextQuery]_vars

----------------------------------------------------------------------------
(* The sign-in route and the log writes of the adapter, as call chains *)

\* the identities the valid tokens carry, and a token that does not verify
Identities == {"x1", "x2"}
Tokens == Identities \cup {"forged"}

\* verifyFirebaseToken: the user the token was issued for (<<>> when
\* verifyIdToken rejects the token)
verifyFirebaseToken(token) ==
    IF token \in Identities
    THEN <<[id |-> token, email |-> IF token = "x1" THEN "x1@corp" ELSE "x2@corp",
            name |-> IF token = "x1" THEN "Xavier" ELSE "Xena"]>>
    ELSE <<>>

\* createTransactionLog's argument
TxInputs ==
    { [user_id |-> "x1", module_code |-> "ADMIN", action |-> "assign_role",
       entity_type |-> "role_assignment", entity_id |-> UNDEF, status |-> "PENDING",
       payload |-> UNDEF, error_message |-> UNDEF, completed_at |-> <<>>,
       duration_ms |-> <<>>] }

\* updateTransactionLog's updates, at the instant t
TxUpdates(t) ==
    { [status |-> "SUCCESS", completed_at |-> nowIso(t), duration_ms |-> <<1>>] }

\* createSystemLog's argument
SysInputs ==
    { [level |-> "ERROR", user_id |-> UNDEF, module_code |-> UNDEF, action |-> UNDEF,
       message |-> "storage unavailable", details |-> UNDEF, correlation_id |-> UNDEF,
       ip_address |-> UNDEF, user_agent |-> UNDEF] }

JsonResponse(status, body) == <<"json", status, body>>

AwaitJob(j, pc) == [j EXCEPT !.pc = pc, !.resp = Pending]

\* (the locals of a finished call are garbage: they are dropped)
FinishedJob(j) ==
    [j EXCEPT !.pc = "none", !.resp = <<"none">>, !.updates = <<>>, !.row = <<>>,
              !.rowNumber = 0, !.seen = 0]

ReturnJob(j, value) == [FinishedJob(j) EXCEPT !.status = "returned", !.result = value]

RaiseJob(j, error) == [FinishedJob(j) EXCEPT !.status = "raised", !.result = error]

StartJob(op, id, updates) ==
    [NoJob EXCEPT !.op = op, !.id = id, !.updates = updates, !.status = "running"]

\* the error leaves the adapter; the route's catch turns it into a 401 answer
ThrowJob(j, error) ==
    IF j.op = "login" THEN ReturnJob(j, JsonResponse(401, error)) ELSE RaiseJob(j, error)

\* the identifiers in a sheet or about to be appended to it
usedIdsOf(sheet, appendPc) ==
    { sheet[k][1] : k \in 2..Len(sheet) }
        \cup { jobs[p].row[1] : p \in { q \in Callers : jobs[q].pc = appendPc } }

\* createUser
createUser(j, user, t) ==
    LET newUser == spread(user, [user_id |-> IF user.user_id = UNDEF
                                             THEN generateId(usedIdsOf(usersSheet, "cu_append"))
                                             ELSE user.user_id,
                                 created_at |-> nowIso(t), updated_at |-> nowIso(t)])
    IN AwaitJob([j EXCEPT !.row = userToRow(newUser)], "cu_append")

\* updateUser, to its read
updateUser(j, userId, updates) ==
    AwaitJob([j EXCEPT !.id = userId, !.updates = updates], "uu_read")

\* updateUser, after its read
updateUserAfterRead(j, users, t) ==
    LET index == findIndexBy(users, "user_id", j.id)
    IN IF index = -1
       THEN ThrowJob(j, "User not found")
       ELSE LET updatedUser == spread(spread(users[index + 1], j.updates),
                                      [updated_at |-> nowIso(t)])
            IN AwaitJob([j EXCEPT !.row = userToRow(updatedUser),
                                  !.rowNumber = index + 2, !.seen = Len(users)],
                        "uu_write")

\* the route, once getUserById has answered
loginAfterGet(j, dbUser, t) ==
    LET user == verifyFirebaseToken(j.id)[1]
    IN IF dbUser = <<>>
       THEN createUser(j, [user_id |-> user.id, email |-> user.email, name |-> user.name,
                           auth_provider |-> "google", is_active |-> TRUE,
                           last_login_at |-> <<>>, metadata |-> UNDEF], t)
       ELSE updateUser(j, dbUser[1].user_id, [last_login_at |-> nowIso(t)])

\* updateTransactionLog, after its read
updateTransactionLogAfterRead(j, logs) ==
    LET index == findIndexBy(logs, "tx_id", j.id)
    IN IF index = -1
       THEN ThrowJob(j, "Transaction log not found")
       ELSE AwaitJob([j EXCEPT !.row = logToRow(spread(logs[index + 1], j.updates)),
                               !.rowNumber = index + 2, !.seen = Len(logs)], "tx_write")

\* the continuation of a job whose request was answered
ContinueJob(j0, t) ==
    LET ok == j0.resp[1] = "ok"
        j == IF ok THEN j0 ELSE [j0 EXCEPT !.failed = TRUE]
    IN IF ~ok THEN ThrowJob(j, j.resp[2])
       ELSE CASE j.pc = "lg_get" -> loginAfterGet(j, getUserById(j.resp[2], j.id), t)
              [] j.pc = "cu_append" -> ReturnJob(j, IF j.op = "login"
                                                    THEN JsonResponse(200, j.id)
                                                    ELSE j.row[1])
              [] j.pc = "uu_read" -> updateUserAfterRead(j, j.resp[2], t)
              [] j.pc = "uu_write" -> ReturnJob(j, IF j.op = "login"
                                                   THEN JsonResponse(200, j.id)
                                                   ELSE j.row[1])
              [] j.pc = "tx_append" -> ReturnJob(j, j.id)
              [] j.pc = "tx_read" -> updateTransactionLogAfterRead(j, j.resp[2])
              [] j.pc = "tx_write" -> ReturnJob(j, <<>>)
              [] j.pc = "sl_append" -> ReturnJob(j, <<>>)

\* neither call chain of the caller is in flight
Free(p) == frames[p].status # "running" /\ jobs[p].status # "running"

\* the sign-in requests that may still append a row
openLogins ==
    Cardinality({ p \in Callers : jobs[p].op = "login"
                                    /\ jobs[p].pc \in {"lg_get", "cu_append"} })

\* POST of the auth route with action 'login', to its first storage read
Login(p, token) ==
    /\ Free(p)
    /\ \/ \E k \in 2..Len(usersSheet) : usersSheet[k][1] = token
       \/ (Len(usersSheet) - 1) + openLogins < MaxRows
    /\ jobs' = [jobs EXCEPT
                  ![p] = IF verifyFirebaseToken(token) = <<>>
                         THEN ThrowJob(StartJob("login", token, <<>>), "invalid token")
                         ELSE AwaitJob(StartJob("login", verifyFirebaseToken(token)[1].id,
                                                <<>>), "lg_get")]
    /\ UNCHANGED <<now, rbacVars, breakerVars, queryVars, usersSheet, txSheet, sysSheet>>

CallLogin(p) == \E token \in Tokens : Login(p, token)

\* sheetsAdapter.createTransactionLog, to its append
CreateTransactionLog(p, log) ==
    /\ Free(p)
    /\ Cardinality(usedIdsOf(txSheet, "tx_append")) < MaxRows
    /\ LET newLog == spread(log, [tx_id |-> generateId(usedIdsOf(txSheet, "tx_append")),
                                  started_at |-> nowIso(now)])
       IN jobs' = [jobs EXCEPT
                     ![p] = AwaitJob([StartJob("createTransactionLog", newLog.tx_id, <<>>)
                                         EXCEPT !.row = logToRow(newLog)], "tx_append")]
    /\ UNCHANGED <<now, rbacVars, breakerVars, queryVars, usersSheet, txSheet, sysSheet>>

CallCreateTransactionLog(p) == \E log \in TxInputs : CreateTransactionLog(p, log)

\* sheetsAdapter.updateTransactionLog, to its read
UpdateTransactionLog(p, txId, updates) ==
    /\ Free(p)
    /\ jobs' = [jobs EXCEPT
                  ![p] = AwaitJob(StartJob("updateTransactionLog", txId, updates), "tx_read")]
    /\ UNCHANGED <<now, rbacVars, breakerVars, queryVars, usersSheet, txSheet, sysSheet>>

CallUpdateTransactionLog(p) ==
    \E k \in 1..(MaxRows + 1), updates \in TxUpdates(now) :
        UpdateTransactionLog(p, IdTable[k], updates)

\* sheetsAdapter.createSystemLog, to its append
CreateSystemLog(p, log) ==
    /\ Free(p)
    /\ Cardinality(usedIdsOf(sysSheet, "sl_append")) < MaxRows
    /\ LET newLog == spread(log, [log_id |-> generateId(usedIdsOf(sysSheet, "sl_append")),
                                  timestamp |-> nowIso(now)])
       IN jobs' = [jobs EXCEPT
                     ![p] = AwaitJob([StartJob("createSystemLog", newLog.log_id, <<>>)
                                         EXCEPT !.row = systemLogToRow(newLog)], "sl_append")]
    /\ UNCHANGED <<now, rbacVars, breakerVars, queryVars, usersSheet, txSheet, sysSheet>>

CallCreateSystemLog(p) == \E log \in SysInputs : CreateSystemLog(p, log)

\* the sheets client answers the outstanding request of the job of p
ServeJob(p) ==
    LET j == jobs[p]
    IN /\ j.status = "running"
       /\ j.resp = Pending
       /\ IF storeDown
          THEN /\ \E kind \in ErrKinds : jobs' = [jobs EXCEPT ![p].resp = <<"err", kind>>]
               /\ UNCHANGED <<usersSheet, txSheet, sysSheet>>
          ELSE CASE j.pc \in {"lg_get", "uu_read"} ->
                      /\ jobs' = [jobs EXCEPT ![p].resp = <<"ok", getUsers(usersSheet)>>]
                      /\ UNCHANGED <<usersSheet, txSheet, sysSheet>>
                 [] j.pc = "cu_append" ->
                      /\ usersSheet' = appendRows(usersSheet, j.row)
                      /\ jobs' = [jobs EXCEPT ![p].resp = <<"ok", <<>>>>]
                      /\ UNCHANGED <<txSheet, sysSheet>>
                 [] j.pc = "uu_write" ->
                      /\ usersSheet' = writeRow(usersSheet, j.rowNumber, j.row)
                      /\ jobs' = [jobs EXCEPT ![p].resp = <<"ok", <<>>>>]
                      /\ UNCHANGED <<txSheet, sysSheet>>
                 [] j.pc = "tx_read" ->
                      /\ jobs' = [jobs EXCEPT
                            ![p].resp = <<"ok", MapSeq(mapRowToTransactionLog,
                                                      slice1(txSheet))>>]
                      /\ UNCHANGED <<usersSheet, txSheet, sysSheet>>
                 [] j.pc = "tx_append" ->
                      /\ txSheet' = appendRows(txSheet, j.row)
                      /\ jobs' = [jobs EXCEPT ![p].resp = <<"ok", <<>>>>]
                      /\ UNCHANGED <<usersSheet, sysSheet>>
                 [] j.pc = "tx_write" ->
                      /\ txSheet' = writeRow(txSheet, j.rowNumber, j.row)
                      /\ jobs' = [jobs EXCEPT ![p].resp = <<"ok", <<>>>>]
                      /\ UNCHANGED <<usersSheet, sysSheet>>
                 [] j.pc = "sl_append" ->
                      /\ sysSheet' = appendRows(sysSheet, j.row)
                      /\ jobs' = [jobs EXCEPT ![p].resp = <<"ok", <<>>>>]
                      /\ UNCHANGED <<usersSheet, txSheet>>
       /\ UNCHANGED <<now, rbacVars, breakerVars, queryVars>>

\* the continuation of the job of p runs, to its next await or to its end
ResumeJob(p) ==
    LET j == jobs[p]
    IN /\ j.status = "running"
       /\ j.resp[1] \in {"ok", "err"}
       /\ jobs' = [jobs EXCEPT ![p] = ContinueJob(j, now)]
       /\ UNCHANGED <<now, rbacVars, breakerVars, queryVars, usersSheet, txSheet, sysSheet>>

\* the operations that write to the sheet
OpsOn(sheet) ==
    CASE sheet = "USERS" -> {"login"}
      [] sheet = "ROLE_ASSIGNMENTS" -> {"assignRole", "revokeRole"}
      [] sheet = "TRANSACTION_LOG" -> {"createTransactionLog", "updateTransactionLog"}

\* the callers of the run contend for one sheet: calls on different sheets
\* share no rows, so their interleavings are those of each sheet alone
Contended(sheet) ==
    \A p \in Callers : /\ frames[p].op \in {"idle"} \cup OpsOn(sheet)
                       /\ jobs[p].op \in {"idle"} \cup OpsOn(sheet)

\* concurrent callers of the adapter's appends and in-place writes
NextAdapter ==
    \/ \E p \in Callers : Contended("USERS") /\ CallLogin(p)
    \/ \E p \in Callers : Contended("TRANSACTION_LOG") /\ CallCreateTransactionLog(p)
    \/ \E p \in Callers : Contended("TRANSACTION_LOG") /\ CallUpdateTransactionLog(p)
    \/ \E p \in Callers : /\ Contended("ROLE_ASSIGNMENTS")
                           /\ \E in \in OtherInputs, by \in AssignedBy :
                                 AssignRole(p, RaceUser, in, by)
    \/ \E p \in Callers : Contended("ROLE_ASSIGNMENTS") /\ RaceRevokeRole(p)
    \/ \E p \in Callers : ServeJob(p)
    \/ \E p \in Callers : ResumeJob(p)
    \/ \E p \in Callers : Serve(p)
    \/ \E p \in Callers : Resume(p)

AdapterInit ==
    /\ rolesSheet = SeededRoles
    /\ RbacIdle
    /\ BreakerIdle
    /\ QueryIdle
    /\ AdapterIdle

SpecAdapter == AdapterInit /\ [][NextAdapter]_vars

\* the log writes of the adapter, against a store that fails and recovers
NextLog ==
    \/ \E p \in Callers : CallCreateSystemLog(p)
    \/ \E p \in Callers : ServeJob(p)
    \/ \E p \in Callers : ResumeJob(p)
    \/ StoreGoesDown
    \/ StoreComesUp

SpecLog == AdapterInit /\ [][NextLog]_vars

\* createUser's argument, as the user administration route passes it
UserInputs ==
    { [user_id |-> UNDEF, email |-> "new@corp", name |-> "Nora", auth_provider |-> "email",
       is_active |-> TRUE, last_login_at |-> <<>>, metadata |-> UNDEF] }

\* updateUser's updates (a Partial<User>), at the instant t
UserUpdates(t) ==
    { [last_login_at |-> nowIso(t)],
      [created_at |-> nowIso(MaxStamp + 1)],
      [user_id |-> "u9"] }

\* sheetsAdapter.createUser called directly, to its append
CreateUser(p, user) ==
    /\ Free(p)
    /\ (Len(usersSheet) - 1)
          + Cardinality({ q \in Callers : jobs[q].pc = "cu_append" }) < MaxRows
    /\ jobs' = [jobs EXCEPT ![p] = createUser(StartJob("createUser", UNDEF, <<>>), user, now)]
    /\ UNCHANGED <<now, rbacVars, breakerVars, queryVars, usersSheet, txSheet, sysSheet>>

CallCreateUser(p) == \E user \in UserInputs : CreateUser(p, user)

\* sheetsAdapter.updateUser called directly, to its read
UpdateUser(p, userId, updates) ==
    /\ Free(p)
    /\ jobs' = [jobs EXCEPT ![p] = updateUser(StartJob("updateUser", userId, updates),
                                              userId, updates)]
    /\ UNCHANGED <<now, rbacVars, breakerVars, queryVars, usersSheet, txSheet, sysSheet>>

CallUpdateUser(p) ==
    \E k \in 1..(MaxRows + 1), updates \in UserUpdates(now) :
        UpdateUser(p, IdTable[k], updates)

\* a millisecond passes
StampTick ==
    /\ now < MaxStamp
    /\ now' = now + 1
    /\ UNCHANGED <<rbacVars, breakerVars, queryVars, adapterVars>>

\* one caller issuing the user writes of the adapter one after another, while
\* time passes
NextUsers ==
    \/ \E p \in Readers : CallCreateUser(p)
    \/ \E p \in Readers : CallUpdateUser(p)
    \/ \E p \in Readers : ServeJob(p)
    \/ \E p \in Readers : ResumeJob(p)
    \/ StampTick

SpecUsers == AdapterInit /\ [][NextUsers]_vars

----------------------------------------------------------------------------
(* What the sheets say, read off the rows as they are now *)

\* the data rows of the user that are switched on
activeRowsOf(u) ==
    SelectSeq(slice1(assignSheet), LAMBDA row: row[2] = u /\ toUpperCase(row[8]) = "TRUE")

\* the expiry cell is empty, or the instant in it is still ahead
unexpired(row) == row[7] = <<>> \/ now < row[7][1]

unexpiredRowsOf(u) == SelectSeq(activeRowsOf(u), unexpired)

\* the ROLES data rows with the id
roleRowsOf(roleId) == { k \in 2..Len(rolesSheet) : rolesSheet[k][1] = roleId }

\* the assignment row points at a role that exists and is switched on
hasLiveRole(row) ==
    \E k \in roleRowsOf(row[3]) : toUpperCase(rolesSheet[k][5]) = "TRUE"

roleOfRow(row) ==
    LET k == CHOOSE j \in roleRowsOf(row[3]) : TRUE
    IN [role_id |-> row[3], role_code |-> rolesSheet[k][2], role_name |-> rolesSheet[k][3],
        site_code |-> IF row[4] = "" THEN UNDEF ELSE row[4]]

\* the roles a list of assignment rows yields
rolesOfRows(rows) == MapSeq(roleOfRow, SelectSeq(rows, hasLiveRole))

grantOfRow(g) ==
    [module_code |-> g[3], action |-> g[4], resource |-> g[5],
     conditions |-> IF g[6] \in JsonTexts THEN g[6] ELSE "{}"]

grantsOfRole(roleId) ==
    MapSeq(grantOfRow,
           SelectSeq(slice1(permsSheet),
                     LAMBDA g: g[2] = roleId /\ toUpperCase(g[7]) = "TRUE"))

RECURSIVE grantsOfRoles(_)
grantsOfRoles(roles) ==
    IF roles = <<>> THEN <<>>
    ELSE grantsOfRole(Head(roles).role_id) \o grantsOfRoles(Tail(roles))

\* the permissions a list of assignment rows yields
grantsOfRows(rows) == grantsOfRoles(rolesOfRows(rows))

\* the answer that denies
Denying(f) ==
    IF f.op \in {"hasPermission", "canAccessModule", "hasRole", "isAdmin"}
    THEN f.result = FALSE
    ELSE f.result = <<>>

----------------------------------------------------------------------------
(* C1: getUserRoles lists no role on account of an assignment whose        *)
(* expires_at lies before the time of the call: what it returns is what    *)
(* the user's active, unexpired assignment rows yield.                     *)
C1_ExpiredExcluded ==
    \A p \in Callers :
        LET f == frames[p]
        IN (f.op = "getUserRoles" /\ f.status = "returned" /\ ~f.failed /\ ~f.dirty)
               => f.result = rolesOfRows(unexpiredRowsOf(f.user))

(* C2: once a mutation for U has returned, the next getUserPermissions(U)  *)
(* started afterwards returns the permissions of the role assignments as   *)
(* the mutation left them.                                                 *)
C2_MutationVisible ==
    \A p \in Callers :
        LET f == frames[p]
        IN (f.op = "getUserPermissions" /\ f.status = "returned" /\ f.afterMut
            /\ ~f.failed /\ ~f.dirty)
               => f.result = grantsOfRows(activeRowsOf(f.user))

(* C3, as stated: a read operation that ran while the storage layer raised *)
(* on every call returns the denying answer.                               *)
C3_DownDenies ==
    \A p \in Callers :
        LET f == frames[p]
        IN (f.op \in ReadOps /\ f.status # "running" /\ f.downAll)
               => (f.status = "returned" /\ Denying(f))

(* C3, amended: a read operation that ran while the storage layer raised   *)
(* on every call returns, never raises, and its answer is the denying one  *)
(* unless getUserPermissions found a live cache entry for the user.        *)
C3_DownDeniesUnlessCached ==
    \A p \in Callers :
        LET f == frames[p]
        IN (f.op \in ReadOps /\ f.status # "running" /\ f.downAll)
               => (f.status = "returned" /\ (~f.cacheHit => Denying(f)))

C3_Witness ==
    \E p \in Callers :
        LET f == frames[p]
        IN /\ f.op = "hasPermission" /\ f.status = "returned"
           /\ f.downAll /\ ~f.cacheHit /\ f.result = FALSE
           /\ somePermMatches(grantsOfRows(activeRowsOf(f.user)), f.args.moduleCode,
                              f.args.action, f.args.resource)

(* C4: when a storage lookup failed during a cache-miss computation of     *)
(* getUserPermissions(U), the call returns the empty list and the cache    *)
(* holds no entry for U.                                                   *)
C4_FailureNotCached ==
    \A p \in Callers :
        LET f == frames[p]
        IN (f.op = "getUserPermissions" /\ f.status = "returned" /\ f.failed)
               => (f.result = <<>> /\ permissionCache[f.user] = NoEntry)

(* C5: the read-path operations never raise, and a call in which a lookup  *)
(* it needed failed returns the denying answer (for isAdmin: the lookups   *)
(* of the hasRole call that decided it).                                   *)
C5_ReadPathFailsClosed ==
    \A p \in Callers :
        LET f == frames[p]
        IN f.op \in ReadOps
               => /\ f.status # "raised"
                  /\ (f.status = "returned"
                      /\ (IF f.op = "isAdmin" THEN f.subFailed ELSE f.failed))
                         => Denying(f)

C5_Witness ==
    \E p \in Callers :
        LET f == frames[p]
        IN /\ f.op = "getUserPermissions" /\ f.status = "returned" /\ f.failed
           /\ f.result = <<>>
           /\ grantsOfRows(activeRowsOf(f.user)) # <<>>

\* the match of C6, with `given` saying whether a resource counts as given
claimedMatch(perm, q, given) ==
    /\ (perm.module_code = "*" \/ perm.module_code = q[1])
    /\ (perm.action = "*" \/ perm.action = q[2])
    /\ (given => (perm.resource = "*" \/ perm.resource = q[3]))

(* C6, as stated: hasPermission is true iff some permission matches the    *)
(* module, the action and, when a resource argument is passed, the         *)
(* resource, each exactly or by wildcard.                                  *)
C6_ThreeWildcardTests ==
    qResult # <<>>
        => qResult[1] = (\E k \in 1..Len(qPerms) :
                            claimedMatch(qPerms[k], qQuery, qQuery[3] # UNDEF))

(* C6, amended: the resource is tested when a non-empty resource is        *)
(* passed; the empty string counts as no resource.                         *)
C6_ThreeWildcardTestsNonEmpty ==
    qResult # <<>>
        => qResult[1] = (\E k \in 1..Len(qPerms) :
                            claimedMatch(qPerms[k], qQuery,
                                         qQuery[3] # UNDEF /\ qQuery[3] # ""))

C6_Witness ==
    /\ qPerms = <<[module_code |-> "HR", action |-> "create", resource |-> "*",
                   conditions |-> "{}"]>>
    /\ qQuery = <<"HR", "create", "candidate">>
    /\ qResult = <<TRUE>>

(* C7: for a user with no effective role (no assignment that is active and *)
(* unexpired with a role that exists and is active) getUserPermissions     *)
(* returns the empty list and hasPermission returns false.                 *)
C7_NoRoleNoPermission ==
    \A p \in Callers :
        LET f == frames[p]
        IN (f.op \in {"getUserPermissions", "hasPermission"} /\ f.status = "returned"
            /\ ~f.dirty /\ rolesOfRows(unexpiredRowsOf(f.user)) = <<>>)
               => Denying(f)

(* C8: getUserRoles never raises, and it returns exactly the roles yielded *)
(* by the user's active assignment rows whose role_id names an existing,   *)
(* active role, in row order: nothing for an inactive assignment, an       *)
(* inactive role or a dangling role_id, and the other rows' roles intact.  *)
C8_RolesFromLiveRows ==
    \A p \in Callers :
        LET f == frames[p]
        IN f.op = "getUserRoles"
               => /\ f.status # "raised"
                  /\ (f.status = "returned" /\ ~f.failed /\ ~f.dirty)
                         => f.result = rolesOfRows(activeRowsOf(f.user))

C8_Witness ==
    \E p \in Callers :
        LET f == frames[p]
        IN /\ f.op = "getUserRoles" /\ f.status = "returned" /\ ~f.failed
           /\ f.result # <<>>
           /\ \E k \in 1..Len(activeRowsOf(f.user)) :
                  roleRowsOf(activeRowsOf(f.user)[k][3]) = {}

(* C9: a call that enters execute while the breaker is OPEN and the        *)
(* cool-down has not elapsed ends at once with the circuit-open error and  *)
(* the wrapped operation is not invoked.                                   *)
C9_OpenFailsFast ==
    \A c \in GatewayCalls :
        calls[c].startedCooling
            => /\ calls[c].pc = "rejected"
               /\ calls[c].attempts = 0
               /\ calls[c].error = CircuitOpenError

C9_Witness ==
    \E c \in GatewayCalls :
        /\ calls[c].startedCooling
        /\ calls[c].pc = "rejected"
        /\ cbFailures = threshold

(* C10: of the calls arriving once the cool-down has elapsed, one only is  *)
(* let through: no second call is in flight that was let through from OPEN *)
(* or HALF_OPEN.                                                           *)
C10_SingleProbe ==
    Cardinality({ c \in GatewayCalls :
                    /\ calls[c].pc \in {"attempt", "sleeping"}
                    /\ calls[c].startState \in {"OPEN", "HALF_OPEN"} }) <= 1

(* C11: every change of the breaker's state is CLOSED->OPEN,                *)
(* OPEN->HALF_OPEN, HALF_OPEN->CLOSED or HALF_OPEN->OPEN.                  *)
C11_OnlyFourChanges ==
    [][cbState' # cbState
           => <<cbState, cbState'>> \in { <<"CLOSED", "OPEN">>, <<"OPEN", "HALF_OPEN">>,
                                          <<"HALF_OPEN", "CLOSED">>, <<"HALF_OPEN", "OPEN">> }]_vars

(* C12: when the call let through after the cool-down fails, the breaker   *)
(* is OPEN again with the cool-down running from that moment, and every    *)
(* call started less than 60 seconds later is thrown out without an        *)
(* attempt; when it succeeds the breaker is CLOSED with a count of 0.      *)
C12_ProbeDecides ==
    [][\A c \in GatewayCalls :
           /\ (calls[c].pc = "attempt" /\ calls[c].startState = "OPEN")
                  => /\ calls'[c].pc = "failed"
                            => (cbState' = "OPEN" /\ cbNextAttempt' = <<now + 60000>>)
                     /\ calls'[c].pc = "ok"
                            => (cbState' = "CLOSED" /\ cbFailures' = 0)
           /\ calls'[c].afterProbe
                  => (calls'[c].pc = "rejected" /\ calls'[c].attempts = 0)]_vars

(* C13: the breaker leaves CLOSED exactly when the number of failed calls  *)
(* since the last successful call reaches 5, and it leaves it for OPEN; a  *)
(* CLOSED breaker has counted fewer than 5.                                *)
C13_OpensAtFifthFailure ==
    /\ [][LET fifth == cbState = "CLOSED" /\ cbHist.run = 4 /\ cbHist'.run = 5
          IN /\ fifth => cbState' = "OPEN"
             /\ (cbState = "CLOSED" /\ cbState' # "CLOSED") => fifth]_vars
    /\ [](cbState = "CLOSED" => cbHist.run < 5)

C13_Witness ==
    /\ cbState = "OPEN"
    /\ cbHist.run = 5
    /\ calls[RetryCall].pc = "failed"

(* C14: the failure count changes only at the end of a call that was let   *)
(* through: by one when the call ends failed, to 0 when it ends well, and  *)
(* not at all at an attempt that is retried.                               *)
C14_OneUpdatePerCall ==
    [][LET endsFailed == \E c \in GatewayCalls :
                             calls[c].pc = "attempt" /\ calls'[c].pc = "failed"
           endsWell == \E c \in GatewayCalls :
                           calls[c].pc = "attempt" /\ calls'[c].pc = "ok"
       IN cbFailures' = IF endsFailed THEN cbFailures + 1
                        ELSE IF endsWell THEN 0
                        ELSE cbFailures]_vars

C14_Witness ==
    \E c \in GatewayCalls :
        /\ calls[c].pc = "ok"
        /\ calls[c].attempts = 3
        /\ cbFailures = 0

\* the failures the retry loop is to take for passing ones
claimedTransient(error) ==
    \/ error.code \in {"ETIMEDOUT", "ECONNRESET"}
    \/ error.status \in 500..599
    \/ error.status = 429

(* C15: a call let through makes at most 3 attempts; a passing failure of  *)
(* attempt k < 3 is followed by a wait of the k-th of 200, 500, 1000 ms    *)
(* and then a new attempt; a success ends the call; the failure of the     *)
(* 3rd attempt ends the call with that error.                              *)
C15_BoundedRetry ==
    [][LET c == RetryCall
           k == calls[c].attempts
       IN /\ calls[c].pc = "attempt"
                => /\ k \in 1..3
                   /\ calls'[c].pc \in {"sleeping", "failed", "ok"}
                   /\ calls'[c].pc = "sleeping"
                          => /\ k < 3 /\ claimedTransient(calls'[c].error)
                             /\ calls'[c].wakeAt = now + <<200, 500, 1000>>[k]
                   /\ calls'[c].pc = "failed"
                          => /\ calls'[c].error \in NetErrors
                             /\ k = 3 \/ ~claimedTransient(calls'[c].error)
                             /\ calls'[c].attempts = k
                   /\ calls'[c].pc = "ok" => calls'[c].attempts = k
          /\ calls[c].pc = "sleeping"
                => \/ calls'[c] = calls[c]
                   \/ /\ calls'[c].pc = "attempt"
                      /\ calls'[c].attempts = k + 1
                      /\ now >= calls[c].wakeAt]_vars

C15_Witness ==
    /\ calls[RetryCall].pc = "failed"
    /\ calls[RetryCall].attempts = 3
    /\ claimedTransient(calls[RetryCall].error)
    /\ now >= 700

(* C16: an attempt that fails with an error that is not a passing one ends *)
(* the call at once with that error, whichever attempt it is: no wait and  *)
(* no further attempt.                                                     *)
C16_LastingFailureEndsCall ==
    [][LET c == RetryCall
       IN (calls[c].pc = "attempt" /\ calls'[c].error \in NetErrors
           /\ ~claimedTransient(calls'[c].error))
              => /\ calls'[c].pc = "failed"
                 /\ calls'[c].attempts = calls[c].attempts]_vars

C16_Witness ==
    /\ calls[RetryCall].pc = "failed"
    /\ calls[RetryCall].error = [code |-> "", status |-> 404]
    /\ calls[RetryCall].attempts = 2

\* p starts a call in this step
callStarts(p) ==
    /\ frames[p].status # "running"
    /\ frames'[p] # frames[p]
    /\ storeDown' = storeDown

\* p, whose last call was getUserPermissions for a user and has returned,
\* starts getUserPermissions for the same user
callsAgain(p) ==
    /\ callStarts(p)
    /\ frames[p].status = "returned"
    /\ frames[p].op = "getUserPermissions"
    /\ frames'[p].op = "getUserPermissions"
    /\ frames'[p].user = frames[p].user

\* the call p starts is answered on the spot from the cache, with the list
\* the call before returned
servedAsBefore(p) ==
    /\ frames'[p].status = "returned"
    /\ frames'[p].cacheHit
    /\ frames'[p].result = frames[p].result

(* C17, as stated: a second getUserPermissions(U) started inside the TTL   *)
(* window (before the expiry of U's cache entry or, the first call having  *)
(* left none, within 5 minutes of the first), nothing having changed U's   *)
(* assignments or cache entry in between, returns the same list without    *)
(* touching the store.                                                     *)
C17_SecondCallFromCache ==
    [][\A p \in Readers :
           LET entry == permissionCache[frames[p].user]
           IN (callsAgain(p)
               /\ IF entry # NoEntry THEN now <= entry[1].expiresAt
                                     ELSE now - frames[p].at <= 300000)
                  => servedAsBefore(p)]_vars

(* C17, amended: when the first call met no storage failure and the second *)
(* starts no later than the expiry of U's cache entry, the second returns  *)
(* the same list without touching the store.                               *)
C17_SecondCallFromLiveEntry ==
    [][\A p \in Readers :
           LET entry == permissionCache[frames[p].user]
           IN (callsAgain(p) /\ ~frames[p].failed
               /\ (entry # NoEntry => now <= entry[1].expiresAt))
                  => servedAsBefore(p)]_vars

C17_Witness ==
    \E p \in Readers :
        /\ frames[p].op = "getUserPermissions"
        /\ frames[p].status = "returned"
        /\ frames[p].cacheHit
        /\ frames[p].result # <<>>
        /\ now = 300000

(* C18: an entry is stored with expiry = the instant of insertion + 5      *)
(* minutes; a lookup after the expiry misses and removes the entry; a      *)
(* lookup at or before the expiry returns the stored list, so no list is   *)
(* served later than 5 minutes after it was stored.                        *)
C18_EntryLivesFiveMinutes ==
    [][/\ \A u \in Users :
              (permissionCache'[u] # permissionCache[u] /\ permissionCache'[u] # NoEntry)
                  => permissionCache'[u][1].expiresAt = now + 300000
       /\ \A p \in Readers :
              LET u == frames'[p].user
                  entry == permissionCache[u]
              IN (callStarts(p) /\ frames'[p].op = "getUserPermissions" /\ entry # NoEntry)
                     => IF now > entry[1].expiresAt
                        THEN /\ ~frames'[p].cacheHit
                             /\ frames'[p].status = "running"
                             /\ permissionCache'[u] = NoEntry
                        ELSE /\ frames'[p].cacheHit
                             /\ frames'[p].status = "returned"
                             /\ frames'[p].result = entry[1].permissions
                             /\ permissionCache'[u] = entry]_vars

C18_Witness ==
    \E p \in Readers :
        /\ frames[p].op = "getUserPermissions"
        /\ frames[p].status = "running"
        /\ ~frames[p].cacheHit
        /\ permissionCache[frames[p].user] = NoEntry
        /\ now = 300001
        /\ grantsOfRows(activeRowsOf(frames[p].user)) # <<>>

\* the permission list a finished call worked from is the one the sheets
\* yield, when the call read the sheets itself and nothing failed or moved
resolvedFromSheets(f) ==
    (~f.failed /\ ~f.cacheHit /\ ~f.dirty) => f.perms = grantsOfRows(activeRowsOf(f.user))

hasWildcardModule(perms) == \E k \in 1..Len(perms) : perms[k].module_code = "*"

(* C19: canAccessModule(U, m) is true iff some permission resolved for U   *)
(* has module_code m or '*'.                                               *)
C19_ModuleOrWildcard ==
    \A p \in Callers :
        LET f == frames[p]
        IN (f.op = "canAccessModule" /\ f.status = "returned")
               => /\ f.result = (\E k \in 1..Len(f.perms) :
                                    f.perms[k].module_code \in {f.args.moduleCode, "*"})
                  /\ resolvedFromSheets(f)

C19_Witness ==
    \E p \in Callers :
        LET f == frames[p]
        IN /\ f.op = "canAccessModule" /\ f.status = "returned"
           /\ f.args.moduleCode = "FIN"
           /\ f.result = TRUE
           /\ ~f.cacheHit
           /\ \A k \in 1..Len(f.perms) : f.perms[k].module_code # "FIN"

\* the codes of the modules switched on
activeModuleCodes ==
    { modulesSheet[k][2] : k \in { j \in 2..Len(modulesSheet) :
                                      toUpperCase(modulesSheet[j][7]) = "TRUE" } }

\* the elements of a list, each listed once
listsExactly(list, S) ==
    /\ { list[k] : k \in 1..Len(list) } = S
    /\ Len(list) = Cardinality(S)

(* C20: getUserModules(U) returns exactly the active module codes, and not *)
(* '*', when a permission resolved for U has module_code '*' (nothing when *)
(* the module lookup fails), and otherwise exactly the module codes named  *)
(* by U's resolved permissions.                                            *)
C20_ModulesOfUser ==
    \A p \in Callers :
        LET f == frames[p]
        IN (f.op = "getUserModules" /\ f.status = "returned")
               => /\ IF hasWildcardModule(f.perms)
                     THEN IF f.failed THEN f.result = <<>>
                          ELSE listsExactly(f.result, activeModuleCodes)
                     ELSE listsExactly(f.result,
                                       { f.perms[k].module_code : k \in 1..Len(f.perms) })
                  /\ resolvedFromSheets(f)

C20_Witness ==
    \E p \in Callers :
        LET f == frames[p]
        IN /\ f.op = "getUserModules" /\ f.status = "returned"
           /\ hasWildcardModule(f.perms)
           /\ ~f.failed
           /\ f.result = <<"WMS", "HR">>


----------------------------------------------------------------------------
\* some role of the list carries one of the two administrator codes
holdsAdminRole(roles) ==
    \E k \in 1..Len(roles) : roles[k].role_code \in {"SUPER_ADMIN", "ADMIN"}

(* C21: isAdmin(U) returns true exactly when U holds, at the time of the   *)
(* call, an effective role (assignment active and unexpired, role existing *)
(* and active) whose code is SUPER_ADMIN or ADMIN; the answer is computed  *)
(* from the sheets, so after a revocation of U's only administrator        *)
(* assignment it is false.                                                 *)
C21_AdminIffEffectiveRole ==
    \A p \in Callers :
        LET f == frames[p]
        IN (f.op = "isAdmin" /\ f.status = "returned" /\ ~f.failed /\ ~f.dirty)
               => f.result = holdsAdminRole(rolesOfRows(unexpiredRowsOf(f.user)))


\* the transaction log holds an entry in one of the states
logHasEntry(sheet, states) == \E k \in 2..Len(sheet) : sheet[k][7] \in states

(* C22: assignRole and revokeRole are bracketed in the transaction log:    *)
(* whenever a mutation's write reaches the ROLE_ASSIGNMENTS sheet the log  *)
(* already holds a PENDING entry, and once the mutation has returned the   *)
(* log holds an entry updated to SUCCESS or FAILED.                        *)
C22_WriteAheadBracket ==
    [][ /\ (assignSheet' # assignSheet) => logHasEntry(txSheet, {"PENDING"})
        /\ \A p \in Callers :
              (frames'[p].op \in WriteOps /\ frames'[p].status = "returned")
                  => logHasEntry(txSheet', {"SUCCESS", "FAILED"}) ]_vars


\* some data row of ROLE_ASSIGNMENTS carries the assignment id
knownAssignment(id) == \E k \in 2..Len(assignSheet) : assignSheet[k][1] = id

(* C23: while no row carries the assignment id, no step of revokeRole(a,U) *)
(* writes to the sheet or changes the permission cache, the call does not  *)
(* return, and once its read has been answered it raises "Assignment not   *)
(* found".                                                                 *)
C23_UnknownIdWritesNothing ==
    [][ \A p \in Callers :
          LET f == frames[p]
              g == frames'[p]
          IN (f.op = "revokeRole" /\ f.status = "running" /\ g # f
              /\ ~knownAssignment(f.args.assignmentId))
                 => /\ assignSheet' = assignSheet
                    /\ permissionCache' = permissionCache
                    /\ g.pc # "rv_write"
                    /\ g.status # "returned"
                    /\ (f.pc = "rv_read" /\ f.resp[1] = "ok")
                          => (g.status = "raised" /\ g.result = "Assignment not found") ]_vars

C23_Witness ==
    \E p \in Callers :
        LET f == frames[p]
        IN /\ f.op = "revokeRole" /\ f.status = "raised"
           /\ f.result = "Assignment not found"
           /\ ~knownAssignment(f.args.assignmentId)
           /\ Len(assignSheet) > 1
           /\ permissionCache[f.user] # NoEntry


\* the step is the store serving the write of a revokeRole for the id
revokeWriteServed(id) ==
    \E p \in Callers :
        /\ frames[p].op = "revokeRole" /\ frames[p].pc = "rv_write"
        /\ frames[p].resp = Pending /\ frames'[p].resp[1] = "ok"
        /\ frames[p].args.assignmentId = id

(* C24: no step removes a row of ROLE_ASSIGNMENTS or moves one; the only   *)
(* change to an existing row is a revokeRole write to the row carrying its *)
(* assignment id, which sets is_active to FALSE and keeps every other      *)
(* cell; and when revokeRole has returned that row is switched off.        *)
C24_RevokeKeepsRows ==
    [][ /\ Len(assignSheet') >= Len(assignSheet)
        /\ \A k \in 1..Len(assignSheet) :
              \/ assignSheet'[k] = assignSheet[k]
              \/ /\ k >= 2
                 /\ revokeWriteServed(assignSheet[k][1])
                 /\ assignSheet'[k] = [assignSheet[k] EXCEPT ![8] = "FALSE"]
        /\ \A p \in Callers :
              (frames'[p].op = "revokeRole" /\ frames'[p].status = "returned")
                  => \E k \in 2..Len(assignSheet') :
                        /\ assignSheet'[k][1] = frames'[p].args.assignmentId
                        /\ assignSheet'[k][8] = "FALSE" ]_vars

C24_Witness ==
    \E p \in Callers :
        /\ frames[p].op = "revokeRole" /\ frames[p].status = "returned"
        /\ Len(assignSheet) = 3
        /\ assignSheet[3][1] = frames[p].args.assignmentId
        /\ assignSheet[3][4] = "HQ" /\ assignSheet[3][7] # <<>>
        /\ assignSheet[3][8] = "FALSE"
        /\ assignSheet[2][8] = "TRUE"


(* C25: an assignRole or revokeRole call in which a storage request failed *)
(* (after the retries, or rejected by the open circuit) raises that error  *)
(* to its caller.                                                          *)
C25_MutationsPropagate ==
    \A p \in Callers :
        LET f == frames[p]
        IN (f.op \in WriteOps /\ f.status # "running" /\ f.failed)
               => (f.status = "raised" /\ f.result \in ErrKinds)

C25_Witness ==
    \E p \in Callers :
        LET f == frames[p]
        IN /\ f.op = "revokeRole" /\ f.status = "raised" /\ f.failed
           /\ f.result = "circuit_open"
           /\ f.row # <<>>
           /\ knownAssignment(f.args.assignmentId)


\* two assignment rows for the same user, role and site
sameGrant(a, b) == a[2] = b[2] /\ a[3] = b[3] /\ a[4] = b[4]

\* the rows without the later repeats of a (user, role, site)
RECURSIVE withoutRepeats(_)
withoutRepeats(rows) ==
    IF rows = <<>> THEN <<>>
    ELSE LET init == SubSeq(rows, 1, Len(rows) - 1)
             last == rows[Len(rows)]
         IN IF \E k \in 1..Len(init) : sameGrant(init[k], last)
            THEN withoutRepeats(init)
            ELSE Append(withoutRepeats(init), last)

\* the sheet holds an active row twice for some (user, role, site)
hasRepeat(u) == withoutRepeats(activeRowsOf(u)) # activeRowsOf(u)

\* the answer of the access query of the frame on a permission list
answerOf(f, perms) ==
    CASE f.op = "hasPermission" ->
            somePermMatches(perms, f.args.moduleCode, f.args.action, f.args.resource)
      [] f.op = "canAccessModule" -> someModuleMatches(perms, f.args.moduleCode)
      [] f.op = "getUserModules" ->
            IF hasWildcardModule(perms)
            THEN MapSeq(moduleCodeOf, getActiveModules(modulesSheet))
            ELSE arrayFromSet(MapSeq(moduleCodeOf, perms), {})

(* C26: assignRole appends its row whatever the sheet already holds, so a  *)
(* repeated (user, role, site) gives two active rows; getUserRoles counts  *)
(* every active row with a live role, repeats included; and hasPermission, *)
(* canAccessModule and getUserModules answer as they would without the     *)
(* repeated rows.                                                          *)
C26_RepeatsChangeNoAnswer ==
    \A p \in Callers :
        LET f == frames[p]
            clean == f.status = "returned" /\ ~f.failed /\ ~f.dirty /\ ~f.cacheHit
        IN /\ (f.op = "assignRole" /\ f.status = "returned")
                  => assignSheet[Len(assignSheet)] = f.row
           /\ (f.op = "getUserRoles" /\ clean)
                  => Len(f.result) = Len(SelectSeq(activeRowsOf(f.user), hasLiveRole))
           /\ (f.op \in {"hasPermission", "canAccessModule", "getUserModules"} /\ clean)
                  => f.result = answerOf(f, grantsOfRows(withoutRepeats(activeRowsOf(f.user))))

C26_Witness ==
    \E p \in Callers :
        LET f == frames[p]
        IN /\ hasRepeat(f.user)
           /\ f.op = "getUserModules" /\ f.status = "returned"
           /\ ~f.failed /\ ~f.cacheHit
           /\ ~hasWildcardModule(f.perms)
           /\ f.result # <<>>


(* C27: writing a system log event never raises to its caller: when the    *)
(* append to SYSTEM_LOG fails the call still returns normally.             *)
C27_LoggingNeverRaises ==
    \A p \in Callers :
        jobs[p].op = "createSystemLog" => jobs[p].status # "raised"


\* the positions of the USERS rows carrying the user_id
userRowsOf(userId) == { k \in 2..Len(usersSheet) : usersSheet[k][1] = userId }

(* C28: whatever the interleaving of the sign-in requests of an identity,  *)
(* USERS never holds two rows with its user_id, and once a sign-in has     *)
(* been answered with success it holds exactly one.                        *)
C28_OneRowPerIdentity ==
    \A x \in Identities :
        /\ Cardinality(userRowsOf(x)) <= 1
        /\ (\E p \in Callers : /\ jobs[p].op = "login" /\ jobs[p].id = x
                               /\ jobs[p].status = "returned"
                               /\ jobs[p].result[2] = 200)
               => Cardinality(userRowsOf(x)) = 1


\* the identifier cells of the data rows of a sheet, top to bottom
dataIds(sheet) == [k \in 1..(Len(sheet) - 1) |-> sheet[k + 1][1]]

\* the identifiers of the objects a read returned
idsOf(list, field) == [k \in 1..Len(list) |-> list[k][field]]

\* the 1-based position, among the objects read, of the first with the id
firstOf(ids, id) ==
    CHOOSE k \in 1..Len(ids) : ids[k] = id /\ \A i \in 1..(k - 1) : ids[i] # id

\* a request of the chain was answered with success in this step
answered(before, after) == before.resp = Pending /\ after.resp[1] = "ok"

\* at most the row at the position differs between the two sheets
onlyRowChanged(sheet, sheet2, rowNumber) ==
    /\ Len(sheet2) = Len(sheet)
    /\ rowNumber \in 2..Len(sheet)
    /\ \A k \in 1..Len(sheet) : k # rowNumber => sheet2[k] = sheet[k]

(* C29: row 1 of USERS, ROLE_ASSIGNMENTS and TRANSACTION_LOG stays the     *)
(* header row; what a read hands on is the data rows alone, one object per *)
(* row from row 2 on; updateUser, revokeRole and updateTransactionLog      *)
(* address the row at (index of the first object read that carries the     *)
(* identifier) + 2, never row 1; and their write changes that row only.    *)
C29_HeaderNeverData ==
    [][ /\ usersSheet'[1] = UsersHeader
        /\ assignSheet'[1] = AssignHeader
        /\ txSheet'[1] = TxHeader
        /\ \A p \in Callers :
              LET j == jobs[p]
                  j2 == jobs'[p]
                  f == frames[p]
                  f2 == frames'[p]
              IN /\ (answered(j, j2) /\ j.pc \in {"lg_get", "uu_read"})
                        => idsOf(j2.resp[2], "user_id") = dataIds(usersSheet)
                 /\ (answered(j, j2) /\ j.pc = "tx_read")
                        => idsOf(j2.resp[2], "tx_id") = dataIds(txSheet)
                 /\ (answered(f, f2) /\ f.pc = "rv_read")
                        => idsOf(f2.resp[2], "assignment_id") = dataIds(assignSheet)
                 /\ (answered(f, f2) /\ f.pc = "assignments")
                        => \A k \in 1..Len(f2.resp[2]) :
                              f2.resp[2][k].assignment_id # AssignHeader[1]
                 /\ (answered(f, f2) /\ f.pc = "perms")
                        => \A k \in 1..Len(f2.resp[2]) :
                              f2.resp[2][k].permission_id # PermsHeader[1]
                 /\ (answered(f, f2) /\ f.pc = "modules")
                        => \A k \in 1..Len(f2.resp[2]) :
                              f2.resp[2][k].module_code # ModulesHeader[2]
                 /\ (j.pc = "uu_read" /\ j2.pc = "uu_write")
                        => j2.rowNumber = firstOf(idsOf(j.resp[2], "user_id"), j.id) + 1
                 /\ (j.pc = "tx_read" /\ j2.pc = "tx_write")
                        => j2.rowNumber = firstOf(idsOf(j.resp[2], "tx_id"), j.id) + 1
                 /\ (f.pc = "rv_read" /\ f2.pc = "rv_write")
                        => f2.rowNumber = firstOf(idsOf(f.resp[2], "assignment_id"),
                                                  f.args.assignmentId) + 1
                 /\ (answered(j, j2) /\ j.pc = "uu_write")
                        => onlyRowChanged(usersSheet, usersSheet', j.rowNumber)
                 /\ (answered(j, j2) /\ j.pc = "tx_write")
                        => onlyRowChanged(txSheet, txSheet', j.rowNumber)
                 /\ (answered(f, f2) /\ f.pc = "rv_write")
                        => onlyRowChanged(assignSheet, assignSheet', f.rowNumber) ]_vars

C29_Witness ==
    \E p \in Callers :
        /\ jobs[p].op = "login" /\ jobs[p].status = "returned" /\ jobs[p].result[2] = 200
        /\ Len(usersSheet) = 3
        /\ usersSheet[1] = UsersHeader
        /\ usersSheet[3][1] = jobs[p].id
        /\ usersSheet[2][1] # jobs[p].id
        /\ usersSheet[3][8] # <<>>
        /\ usersSheet[2][8] = <<>>


\* the row of the sheet at the position carries the identifier
carries(sheet, rowNumber, id) == rowNumber \in 2..Len(sheet) /\ sheet[rowNumber][1] = id

(* C30: whatever other appends and single-row writes were served since the *)
(* scan, the row that a write of updateUser, revokeRole or                 *)
(* updateTransactionLog replaces carries the target identifier when the    *)
(* write is served and afterwards, and no other row of the sheet changes.  *)
C30_WriteLandsOnTarget ==
    [][ \A p \in Callers :
          LET j == jobs[p]
              f == frames[p]
          IN /\ (answered(j, jobs'[p]) /\ j.pc = "uu_write")
                    => /\ carries(usersSheet, j.rowNumber, j.id)
                       /\ carries(usersSheet', j.rowNumber, j.id)
                       /\ onlyRowChanged(usersSheet, usersSheet', j.rowNumber)
             /\ (answered(j, jobs'[p]) /\ j.pc = "tx_write")
                    => /\ carries(txSheet, j.rowNumber, j.id)
                       /\ carries(txSheet', j.rowNumber, j.id)
                       /\ onlyRowChanged(txSheet, txSheet', j.rowNumber)
             /\ (answered(f, frames'[p]) /\ f.pc = "rv_write")
                    => /\ carries(assignSheet, f.rowNumber, f.args.assignmentId)
                       /\ carries(assignSheet', f.rowNumber, f.args.assignmentId)
                       /\ onlyRowChanged(assignSheet, assignSheet', f.rowNumber) ]_vars

C30_Witness ==
    \E p \in Callers :
        LET j == jobs[p]
        IN /\ j.pc = "uu_write" /\ j.resp[1] = "ok"
           /\ j.seen < Len(usersSheet) - 1
           /\ usersSheet[j.rowNumber] = j.row
           /\ \E k \in 2..Len(usersSheet) : usersSheet[k][1] # j.id


----------------------------------------------------------------------------
(* C31: createUser stamps created_at and updated_at with the instant at
   which it builds the row; updateUser stamps updated_at with the instant at
   which it builds the row, and the write it issues, whatever its updates
   argument, leaves the created_at and the user_id cells of the row as they
   were stored. *)
C31_UpdateKeepsCreation ==
    [][\A p \in Callers :
          /\ (jobs[p].pc # "cu_append" /\ jobs'[p].pc = "cu_append")
                => /\ jobs'[p].row[6] = nowIso(now)
                   /\ jobs'[p].row[7] = nowIso(now)
          /\ (jobs[p].pc = "uu_read" /\ jobs'[p].pc = "uu_write")
                => jobs'[p].row[7] = nowIso(now)
          /\ (jobs[p].pc = "uu_write" /\ jobs[p].resp = Pending /\ jobs'[p].resp[1] = "ok")
                => /\ usersSheet'[jobs[p].rowNumber][6] = usersSheet[jobs[p].rowNumber][6]
                   /\ usersSheet'[jobs[p].rowNumber][1] = usersSheet[jobs[p].rowNumber][1]
      ]_vars

----------------------------------------------------------------------------
(* C32: when revokeRole(a, u) returns, the permission cache holds no entry
   for the user named in the row of assignment a, whichever user u the
   caller passed. *)
C32_RevokeDropsOwnersEntry ==
    [][\A p \in Callers :
          (/\ frames[p].op = "revokeRole"
           /\ frames[p].status = "running"
           /\ frames'[p].status = "returned")
             => permissionCache'[assignSheet[frames[p].rowNumber][2]] = NoEntry
      ]_vars

----------------------------------------------------------------------------
(* C33: in every state of the breaker, with calls running together, a
   CLOSED breaker has counted fewer failures than the threshold, and an OPEN
   or HALF_OPEN breaker has counted at least the threshold and has a
   cool-down deadline. *)
C33_StateMatchesCount ==
    /\ cbState = "CLOSED" => cbFailures < threshold
    /\ cbState \in {"OPEN", "HALF_OPEN"}
          => /\ cbFailures >= threshold
             /\ cbNextAttempt # <<>>
             /\ cbNextAttempt[1] # 0

\* the breaker is probing while both calls have an attempt in flight, one of
\* them begun before the cool-down ended
C33_Witness ==
    /\ cbState = "HALF_OPEN"
    /\ \A c \in GatewayCalls : calls[c].pc = "attempt"
    /\ \E c \in GatewayCalls : calls[c].startState # "OPEN"

----------------------------------------------------------------------------
(* C34: a call thrown out by the open breaker leaves the failure count, the
   state and the cool-down deadline of the breaker as they were. *)
C34_RejectionChangesNothing ==
    [][\A c \in GatewayCalls :
          (calls'[c] # calls[c] /\ calls'[c].pc = "rejected")
             => UNCHANGED <<cbFailures, cbState, cbNextAttempt>>
      ]_vars

\* a call was thrown out part-way through the cool-down, after the clock
\* had moved on from the instant the breaker opened
C34_Witness ==
    /\ \E c \in GatewayCalls : calls[c].pc = "rejected"
    /\ cbState = "OPEN"
    /\ cbNextAttempt # <<>>
    /\ now + timeout > cbNextAttempt[1]
    /\ now < cbNextAttempt[1]

----------------------------------------------------------------------------
(* C35: invalidatePermissionCache called with a user id, the empty string
   included, removes the entry of that user and leaves the entry of every
   other user as it was; called without an argument it empties the cache. *)
C35_InvalidateOneUserOnly ==
    [][\A p \in Callers :
          (frames'[p] # frames[p] /\ frames'[p].op = "invalidatePermissionCache")
             => IF frames'[p].user = UNDEF
                THEN \A v \in Users : permissionCache'[v] = NoEntry
                ELSE \A v \in Users :
                        permissionCache'[v] = IF v = frames'[p].user THEN NoEntry
                                              ELSE permissionCache[v]
      ]_vars

----------------------------------------------------------------------------
\* the assignment rows with the site cell emptied
unscoped(rows) == [k \in 1..Len(rows) |-> [rows[k] EXCEPT ![4] = ""]]

\* the entries of a list, as a set
entriesOf(list) == { list[k] : k \in 1..Len(list) }

(* C36: the permissions resolved for a user, and the answers of
   hasPermission, canAccessModule, getUserModules and isAdmin, are those the
   store gives with the site cell of every assignment emptied: an assignment
   scoped to a site grants what an unscoped one grants. *)
C36_SiteScopeIgnored ==
    \A p \in Callers :
        LET f == frames[p]
            clean == f.status = "returned" /\ ~f.failed /\ ~f.dirty /\ ~f.cacheHit
            rows == unscoped(activeRowsOf(f.user))
        IN /\ (f.op = "getUserPermissions" /\ clean)
                  => entriesOf(f.result) = entriesOf(grantsOfRows(rows))
           /\ (f.op \in {"hasPermission", "canAccessModule", "getUserModules"} /\ clean)
                  => f.result = answerOf(f, grantsOfRows(rows))
           /\ (f.op = "isAdmin" /\ clean)
                  => f.result = holdsAdminRole(rolesOfRows(rows))

\* a permission was granted to a user all of whose assignments are scoped
\* to a site
C36_Witness ==
    \E p \in Callers :
        LET f == frames[p]
        IN /\ f.op = "hasPermission" /\ f.status = "returned"
           /\ ~f.failed /\ ~f.dirty /\ ~f.cacheHit
           /\ f.result = TRUE
           /\ activeRowsOf(f.user) # <<>>
           /\ \A k \in 1..Len(activeRowsOf(f.user)) : activeRowsOf(f.user)[k][4] = "HQ"

----------------------------------------------------------------------------
(* C37: on one resolved permission list and one list of active modules,
   every code getUserModules returns passes the test of canAccessModule, and
   every active module that passes the test of canAccessModule is among the
   codes getUserModules returns. *)
C37_ModulesAgreeWithAccess ==
    \A p \in Callers :
        LET f == frames[p]
        IN (f.op = "getUserModules" /\ f.status = "returned" /\ ~f.failed)
              => /\ \A code \in entriesOf(f.result) : someModuleMatches(f.perms, code)
                 /\ \A m \in activeModuleCodes :
                       someModuleMatches(f.perms, m) => m \in entriesOf(f.result)

\* the list of a user holding the wildcard was answered from the active
\* modules, each of them open to the user through the wildcard alone
C37_Witness ==
    \E p \in Callers :
        LET f == frames[p]
        IN /\ f.op = "getUserModules" /\ f.status = "returned" /\ ~f.failed
           /\ entriesOf(f.result) = activeModuleCodes
           /\ \A k \in 1..Len(f.perms) : f.perms[k].module_code = "*"
           /\ f.perms # <<>>

----------------------------------------------------------------------------
(* C38: every gateway call ends.  When each attempt sent returns or fails
   and each backoff timer fires, a call that was let through ends with a
   result or an error, having made at most 3 attempts and waited at most
   twice; a call thrown out by the open breaker has ended with no attempt
   made. *)
C38_CallsTerminate ==
    /\ [](\A c \in GatewayCalls :
             /\ calls[c].attempts <= 3
             /\ calls[c].i + (IF calls[c].pc = "sleeping" THEN 1 ELSE 0) <= 2
             /\ calls[c].pc = "rejected" => calls[c].attempts = 0)
    /\ \A c \in GatewayCalls :
          (calls[c].pc \in {"attempt", "sleeping"}) ~> (calls[c].pc \in {"ok", "failed"})

\* the third attempt of a call has failed, and that failure was the one
\* that opened the breaker
C38_Witness ==
    \E c \in GatewayCalls :
        /\ calls[c].pc = "failed" /\ calls[c].attempts = 3
        /\ cbState = "OPEN" /\ cbFailures = threshold

============================================================================
